---- MODULE Spec2Model ----
(***************************************************************************)
(* Model of the EmotiBit UDP bridge (src/enhanced_bridge.py; the network   *)
(* variant src/network_bridge.py has the same listener, decoder and metric *)
(* engine).                                                                *)
(*                                                                         *)
(* Time is counted in tenths of a second (ds): 0.8 s = 8, 2 s = 20,        *)
(* 10 s = 100.  Sensor values are integers.  A datagram's text is a        *)
(* sequence of tokens (markers, channel names, words, numerals,            *)
(* separators, commas, newlines); the regular expressions and the string   *)
(* operations of the decoder are modelled by what they match on that       *)
(* token sequence.  Arithmetic is exact (rationals), so floating-point     *)
(* rounding is not modelled.                                               *)
(***************************************************************************)
EXTENDS Integers, Sequences, FiniteSets, TLC

VARIABLES
    sensor_data,        \* channel name -> sequence of [timestamp, value]
    current_data,       \* the record served to the HTTP handler
    packets_received,
    last_packet_time,
    successful_parses,
    running,
    now,                \* time.time(), in ds
    lpc,                \* udp_listener: "start", "recv", "failed", "done"
    recv_start,         \* when the pending sock.recvfrom was called
    epc,                \* process_loop: "loop", "done"
    wake,               \* when the pending time.sleep(2) returns
    appended,           \* history: channel -> every sample ever appended
    ran,                \* history: the strategies run on the last datagram
    cycle_seen,         \* history: packets_received at the last cycle, or -1
    handler,            \* do_GET in progress: its path and what it has read
    response,           \* the last response written by do_GET
    datagram,           \* history: the payload of the last datagram, or None
    origin              \* history: channel -> for every sample ever appended,
                        \* the number of the datagram that brought it

vars == <<sensor_data, current_data, packets_received, last_packet_time,
          successful_parses, running, now, lpc, recv_start, epc, wake,
          appended, ran, cycle_seen, handler, response, datagram, origin>>

----------------------------------------------------------------------------
(* Bounds of the model *)

MaxPackets == 2
MaxTime == 21
MaxPacketsHR == 4
MaxTimeHR == 17
MaxPacketsConn == 2
MaxTimeConn == 141
MaxPacketsQuery == 2
MaxTimeQuery == 21
MaxReceived == 50
MaxPacketsStop == 1
MaxTimeStop == 41
MaxShort == 2
MaxXmlValues == 6
MaxCsvFields == 6
MaxNumericValues == 7
MaxPairs == 3
MaxPacketsStale == 54
MaxTimeStale == 60
MaxPacketsEda == 3
MaxTimeEda == 21
MaxPacketsRace == 3
MaxPacketsBeat == 3
MaxTimeBeat == 17
MaxPacketsMin == 2
MaxTimeMin == 21
MaxLines == 3

----------------------------------------------------------------------------
(* Program constants *)

MaxLen == 200
RecvTimeout == 20
StaleAfter == 100
SleepInterval == 20
Sentinel == 3000
XmlLimit == 100000
XmlTake == 5
NumericTake == 6

ChannelOrder ==
    << "PPG_INFRARED", "PPG_RED", "PPG_GREEN", "EDA", "TEMPERATURE_0",
       "ACCELEROMETER_X", "ACCELEROMETER_Y", "ACCELEROMETER_Z",
       "GYROSCOPE_X", "GYROSCOPE_Y", "GYROSCOPE_Z" >>

Channels == { ChannelOrder[i] : i \in 1..Len(ChannelOrder) }

None == << >>
Some(x) == << x >>

----------------------------------------------------------------------------
(* Text of a datagram, as tokens.  k is the kind of token:                 *)
(*   "open"  <type>          "close" </type>                               *)
(*   "name"  a channel name, s the name, f = TRUE when written lowercase   *)
(*   "word"  letters that are no channel name and that float() rejects     *)
(*   "num"   a decimal numeral of value v, written with a ".0" when f      *)
(*   "sep"   one of ":", "=", " "      "comma" ","       "nl" newline      *)
(* Tokens are juxtaposed; the menus below never put two numerals, or a     *)
(* name and a numeral or word, side by side.                               *)

Tok(k, s, v, f) == [k |-> k, s |-> s, v |-> v, f |-> f]
TOpen == Tok("open", "", 0, FALSE)
TClose == Tok("close", "", 0, FALSE)
TName(ch) == Tok("name", ch, 0, FALSE)
TLower(ch) == Tok("name", ch, 0, TRUE)
TWord(w) == Tok("word", w, 0, FALSE)
TNum(v) == Tok("num", "", v, FALSE)
TDec(v) == Tok("num", "", v, TRUE)
TSep(c) == Tok("sep", c, 0, FALSE)
TComma == Tok("comma", "", 0, FALSE)
TNl == Tok("nl", "", 0, FALSE)

Abs(x) == IF x < 0 THEN -x ELSE x

\* str.strip(): leading and trailing whitespace removed
IsSpace(t) == (t.k = "sep" /\ t.s = " ") \/ t.k = "nl"

RECURSIVE LStrip(_)
LStrip(ts) ==
    IF ts # << >> /\ IsSpace(Head(ts)) THEN LStrip(Tail(ts)) ELSE ts

RECURSIVE RStrip(_)
RStrip(ts) ==
    IF ts # << >> /\ IsSpace(ts[Len(ts)])
    THEN RStrip(SubSeq(ts, 1, Len(ts) - 1))
    ELSE ts

Strip(ts) == RStrip(LStrip(ts))

\* str.split(sep) on the token kind sep ("nl" or "comma"), for the tokens
\* lo..hi: the pieces of the two halves, the last piece of the first half
\* joined to the first piece of the second
RECURSIVE SplitRange(_, _, _, _)
SplitRange(ts, kind, lo, hi) ==
    IF lo > hi THEN << << >> >>
    ELSE IF lo = hi
         THEN (IF ts[lo].k = kind THEN << << >>, << >> >> ELSE << << ts[lo] >> >>)
         ELSE LET mid == (lo + hi) \div 2
                  L == SplitRange(ts, kind, lo, mid)
                  R == SplitRange(ts, kind, mid + 1, hi)
              IN SubSeq(L, 1, Len(L) - 1) \o << L[Len(L)] \o R[1] >> \o Tail(R)

Split(ts, kind) == SplitRange(ts, kind, 1, Len(ts))

\* s in self.sensor_data, for a stripped piece of text
IsKnownName(ts) == Len(ts) = 1 /\ ts[1].k = "name" /\ ~ts[1].f /\ ts[1].s \in Channels

\* digits inside a channel name, as the regular expressions see them
NameDigits(ch) == IF ch = "TEMPERATURE_0" THEN << 0 >> ELSE << >>

\* the numerals one token holds for r'-?\d+\.?\d*' (two = FALSE) and for
\* r'-?\d+\.?\d+' (two = TRUE), which needs at least two digits
TokenNumbers(t, two) ==
    CASE t.k = "num" ->
           IF ~two \/ t.f \/ Abs(t.v) >= 10 THEN << t.v >> ELSE << >>
      [] t.k = "name" -> IF two THEN << >> ELSE NameDigits(t.s)
      [] OTHER -> << >>

RECURSIVE RangeNumbers(_, _, _, _)
RangeNumbers(ts, two, lo, hi) ==
    IF lo > hi THEN << >>
    ELSE IF lo = hi THEN TokenNumbers(ts[lo], two)
    ELSE LET mid == (lo + hi) \div 2 IN
         RangeNumbers(ts, two, lo, mid) \o RangeNumbers(ts, two, mid + 1, hi)

\* re.findall(r'-?\d+\.?\d*', data_string), converted with float()
FindNumbersA(ts) == RangeNumbers(ts, FALSE, 1, Len(ts))

\* re.findall(r'-?\d+\.?\d+', data_string), converted with float()
FindNumbersB(ts) == RangeNumbers(ts, TRUE, 1, Len(ts))

Take(s, n) == SubSeq(s, 1, IF Len(s) < n THEN Len(s) ELSE n)

Min(S) == CHOOSE x \in S : \A y \in S : x <= y

Sample(ts, v) == [timestamp |-> ts, value |-> v]
Write(ch, v) == [ch |-> ch, value |-> v]
LU(kind, ch, v, n) == [kind |-> kind, ch |-> ch, v |-> v, n |-> n]

\* what a strategy did: its return value, the samples it appended (in
\* order), the last_update text it set, and whether it set raw_data_samples
Result(ok, writes, lu, raw) == [ok |-> ok, writes |-> writes, lu |-> lu, raw |-> raw]
\* (a variant in which a strategy that returns False has appended a sample)
FailedMutant == Result(FALSE, << Write("EDA", 0) >>, LU("", "", 0, 0), FALSE)
Failed == Result(FALSE, << >>, LU("", "", 0, 0), FALSE)

----------------------------------------------------------------------------
(* Method 1: XML-style *)

\* re.search(r'<type>(.*?)</type>', line): '.' does not cross a newline
LineTypeGroup(line) ==
    LET opens == { i \in 1..Len(line) : line[i].k = "open" } IN
    IF opens = {} THEN None
    ELSE LET i == Min(opens)
             closes == { j \in (i + 1)..Len(line) : line[j].k = "close" }
         IN IF closes = {} THEN None
            ELSE Some(SubSeq(line, i + 1, Min(closes) - 1))

TypeMatch(ts) ==
    LET lines == Split(ts, "nl")
        hit == { n \in 1..Len(lines) : LineTypeGroup(lines[n]) # None }
    IN IF hit = {} THEN None ELSE LineTypeGroup(lines[Min(hit)])

\* (a variant that keeps the sentinel)
XmlKeepMutant(v) == Abs(v) < XmlLimit
XmlKeep(v) == Abs(v) < XmlLimit /\ v # Sentinel

parse_xml_format(ts) ==
    LET m == TypeMatch(ts) IN
    IF m = None THEN Failed
    ELSE LET data_type == Strip(m[1])
             values == SelectSeq(FindNumbersA(ts), XmlKeep)
         IN IF IsKnownName(data_type) /\ values # << >>
            THEN LET ch == data_type[1].s
                     taken == Take(values, XmlTake)
                 IN Result(TRUE,
                           [i \in 1..Len(taken) |-> Write(ch, taken[i])],
                           LU("XML", ch, values[1], Len(values)),
                           TRUE)
            ELSE Failed

----------------------------------------------------------------------------
(* Method 2: CSV-style *)

\* (a variant that drops the sentinel, as the tagged-type strategy does)
CsvKeepMutant(v) == Abs(v) < XmlLimit /\ v # Sentinel
CsvKeep(v) == Abs(v) < XmlLimit

\* float(part.strip()) for the fields lo..hi, unparsable fields skipped
FieldValue(part) ==
    LET f == Strip(part) IN
    IF Len(f) = 1 /\ f[1].k = "num" /\ CsvKeep(f[1].v) THEN << f[1].v >> ELSE << >>

RECURSIVE FieldValues(_, _, _)
FieldValues(parts, lo, hi) ==
    IF lo > hi THEN << >>
    ELSE IF lo = hi THEN FieldValue(parts[lo])
    ELSE LET mid == (lo + hi) \div 2 IN
         FieldValues(parts, lo, mid) \o FieldValues(parts, mid + 1, hi)

\* (a variant that takes the second field for a channel whatever it names)
CsvLineMutant(line) ==
    LET parts == Split(line, "comma") IN
    IF Len(parts) >= 3 /\ Len(Strip(parts[2])) = 1
    THEN [ch |-> Strip(parts[2])[1].s,
          values |-> FieldValues(parts, 3, Len(parts))]
    ELSE [ch |-> "", values |-> << >>]

\* one line of the loop: the values it would append, << >> when it does
\* not qualify or nothing survives
CsvLine(line) ==
    LET parts == Split(line, "comma") IN
    IF Len(parts) >= 3 /\ IsKnownName(Strip(parts[2]))
    THEN [ch |-> Strip(parts[2])[1].s,
          values |-> FieldValues(parts, 3, Len(parts))]
    ELSE [ch |-> "", values |-> << >>]

\* (a variant that returns after the first line, whatever it gave)
CsvLinesFirstOnly(lines) ==
    IF lines = << >> THEN Failed
    ELSE LET r == CsvLine(Head(lines)) IN
         IF r.values # << >>
         THEN Result(TRUE,
                     [i \in 1..Len(r.values) |-> Write(r.ch, r.values[i])],
                     LU("CSV", r.ch, r.values[1], 0),
                     FALSE)
         ELSE Failed

RECURSIVE CsvLines(_)
CsvLines(lines) ==
    IF lines = << >> THEN Failed
    ELSE LET r == CsvLine(Head(lines)) IN
         IF r.values # << >>
         THEN Result(TRUE,
                     [i \in 1..Len(r.values) |-> Write(r.ch, r.values[i])],
                     LU("CSV", r.ch, r.values[1], 0),
                     FALSE)
         ELSE CsvLines(Tail(lines))

parse_csv_format(ts) == CsvLines(Split(Strip(ts), "nl"))

----------------------------------------------------------------------------
(* Method 3: bare numbers, assigned by magnitude *)

NumericKeep(v) == -1000 <= v /\ v <= 10000 /\ v # Sentinel

AccelTypes == << "ACCELEROMETER_X", "ACCELEROMETER_Y", "ACCELEROMETER_Z" >>

\* (a variant that tests the EDA band first and starts the rotation of the
\* accelerometer axes at Y)
NumericBandMutant(i, v) ==
    IF 0 <= v /\ v <= 10 THEN "EDA"
    ELSE IF 500 <= v /\ v <= 5000 THEN "PPG_INFRARED"
    ELSE IF 20 <= v /\ v <= 50 THEN "TEMPERATURE_0"
    ELSE IF -50 <= v /\ v <= 50 THEN AccelTypes[((i + 1) % 3) + 1]
    ELSE ""

\* the channel of the value at 0-based position i, "" when it is dropped
NumericBand(i, v) ==
    IF 500 <= v /\ v <= 5000 THEN "PPG_INFRARED"
    ELSE IF 0 <= v /\ v <= 10 THEN "EDA"
    ELSE IF 20 <= v /\ v <= 50 THEN "TEMPERATURE_0"
    ELSE IF -50 <= v /\ v <= 50 THEN AccelTypes[(i % 3) + 1]
    ELSE ""

RECURSIVE NumericWrites(_, _)
NumericWrites(values, i) ==
    IF i >= Len(values) THEN << >>
    ELSE LET ch == NumericBand(i, values[i + 1]) IN
         (IF ch = "" THEN << >> ELSE << Write(ch, values[i + 1]) >>)
         \o NumericWrites(values, i + 1)

parse_numeric_format(ts) ==
    LET numbers == FindNumbersB(ts) IN
    IF Len(numbers) < 2 THEN Failed
    ELSE LET values == SelectSeq(numbers, NumericKeep) IN
         IF Len(values) >= 2
         THEN Result(TRUE,
                     NumericWrites(Take(values, NumericTake), 0),
                     LU("Numeric", "", 0, Len(values)),
                     FALSE)
         ELSE Failed

----------------------------------------------------------------------------
(* Method 4: sensor name followed by a value *)

\* [:\s=]
IsKvSep(t) == t.k = "sep" \/ t.k = "nl"

\* the token index of the numeral when name[:\s=]+number matches at i
RECURSIVE SkipSeps(_, _)
SkipSeps(ts, j) ==
    IF j <= Len(ts) /\ IsKvSep(ts[j]) THEN SkipSeps(ts, j + 1) ELSE j

KvAt(ts, ch, i) ==
    /\ ts[i].k = "name"
    /\ ts[i].s = ch
    /\ i + 1 <= Len(ts)
    /\ IsKvSep(ts[i + 1])
    /\ LET j == SkipSeps(ts, i + 1) IN j <= Len(ts) /\ ts[j].k = "num"

\* (a variant that takes the rightmost match)
KvSearchMutant(ts, ch) ==
    LET hits == { i \in 1..Len(ts) : KvAt(ts, ch, i) } IN
    IF hits = {} THEN None
    ELSE Some(ts[SkipSeps(ts, (CHOOSE i \in hits : \A j \in hits : j <= i) + 1)].v)

\* re.search(pattern, data_string, re.IGNORECASE): the leftmost match
KvSearch(ts, ch) ==
    LET hits == { i \in 1..Len(ts) : KvAt(ts, ch, i) } IN
    IF hits = {} THEN None ELSE Some(ts[SkipSeps(ts, Min(hits) + 1)].v)

RECURSIVE StructuredFrom(_, _)
StructuredFrom(ts, n) ==
    IF n > Len(ChannelOrder) THEN Failed
    ELSE LET sensor_name == ChannelOrder[n]
             m == KvSearch(ts, sensor_name)
         IN IF m # None
            THEN Result(TRUE, << Write(sensor_name, m[1]) >>,
                        LU("Structured", sensor_name, m[1], 0), FALSE)
            ELSE StructuredFrom(ts, n + 1)

parse_structured_format(ts) == StructuredFrom(ts, 1)

----------------------------------------------------------------------------
(* Datagrams *)

Repeat(v, n) == [i \in 1..n |-> v]
Count(n) == [i \in 1..n |-> i]

\* "1,<ch>,v1,v2,..."
CsvRow(ch, vals) ==
    << TNum(1), TComma, TName(ch) >> \o
    [i \in 1..(2 * Len(vals)) |->
        IF i % 2 = 1 THEN TComma ELSE TNum(vals[i \div 2])]

\* "<type>EDA</type> 5.0, 3000, 7"
PXml ==
    << TOpen, TName("EDA"), TClose, TSep(" "), TDec(5), TComma, TSep(" "),
       TNum(3000), TComma, TSep(" "), TNum(7) >>

\* "<type>HEART</type> 12.0 13.0"
PXmlUnknown ==
    << TOpen, TWord("HEART"), TClose, TSep(" "), TDec(12), TSep(" "), TDec(13) >>

\* "1,EDA,5.0" newline "EDA: 7"
PCsvKv ==
    << TNum(1), TComma, TName("EDA"), TComma, TDec(5), TNl,
       TName("EDA"), TSep(":"), TSep(" "), TNum(7) >>

\* "<type>EDA</type>" newline "1,EDA,5.0" newline "EDA: 7"
PXmlCsvKv == << TOpen, TName("EDA"), TClose, TNl >> \o PCsvKv

\* "EDA: 7"
PKv == << TName("EDA"), TSep(":"), TSep(" "), TNum(7) >>

\* "hello"
PJunk == << TWord("hello") >>

\* EDA rows: 201 distinct values, 11 low values, 20 high values
PEdaLong == CsvRow("EDA", Count(MaxLen + 1))
PEdaLow == CsvRow("EDA", Repeat(5, 11))
PEdaHigh == CsvRow("EDA", Repeat(150, 20))

\* "36.0 36.0 36.0 36.0 36.0 36.0"
PTemp ==
    << TDec(36), TSep(" "), TDec(36), TSep(" "), TDec(36), TSep(" "),
       TDec(36), TSep(" "), TDec(36), TSep(" "), TDec(36) >>

\* "1,HEART,21.0,22.0"
PCsvUnknown ==
    << TNum(1), TComma, TWord("HEART"), TComma, TDec(21), TComma, TDec(22) >>

Menu == { PXml, PXmlUnknown, PCsvKv, PXmlCsvKv, PKv, PJunk,
          PEdaLong, PEdaLow, PEdaHigh, PTemp, PCsvUnknown }

\* PPG rows: ten samples with a peak at the third, ten samples with a peak
\* at the second, twenty flat samples
PPeak == CsvRow("PPG_INFRARED", << 0, 0, 1, 0, 0, 0, 0, 0, 0, 0 >>)
PEdge == CsvRow("PPG_INFRARED", << 0, 1, 0, 0, 0, 0, 0, 0, 0, 0 >>)
PFlat == CsvRow("PPG_INFRARED", Repeat(0, 20))

MenuHR == { PPeak, PEdge, PFlat }

MenuConn == { PKv, PJunk }

AllPayloads == Menu \cup MenuHR \cup MenuConn

----------------------------------------------------------------------------
(* The decoder chain *)

StrategyOrderMutant == << "xml", "structured", "csv", "numeric" >>
StrategyOrder == << "xml", "csv", "numeric", "structured" >>

Strategy(name, ts) ==
    CASE name = "xml" -> parse_xml_format(ts)
      [] name = "csv" -> parse_csv_format(ts)
      [] name = "numeric" -> parse_numeric_format(ts)
      [] name = "structured" -> parse_structured_format(ts)

Attempt(name, ts) == [name |-> name, res |-> Strategy(name, ts)]

\* the strategies run on one datagram, in the order run, each with what it
\* did: a strategy that returns True ends the chain
RECURSIVE RunFromMutant(_, _)
RunFromMutant(ts, k) ==
    IF k > Len(StrategyOrder) THEN << >>
    ELSE << Attempt(StrategyOrder[k], ts) >> \o RunFromMutant(ts, k + 1)

RECURSIVE RunFrom(_, _)
RunFrom(ts, k) ==
    IF k > Len(StrategyOrder) THEN << >>
    ELSE LET a == Attempt(StrategyOrder[k], ts) IN
         IF a.res.ok THEN << a >> ELSE << a >> \o RunFrom(ts, k + 1)

parse_emotibit_data_improved(ts) == RunFrom(ts, 1)

\* the decoding of every datagram of the menus, tabulated (@@ builds the
\* table of values, so that each datagram is decoded once)
Decoded == [p \in AllPayloads |-> parse_emotibit_data_improved(p)] @@ << >>

\* a payload outside the menus is decoded when it arrives
DecodeOf(payload) ==
    IF payload \in AllPayloads THEN Decoded[payload]
    ELSE parse_emotibit_data_improved(payload)

\* deque(maxlen=200).append
\* (a variant that adds at the left end: appendleft)
DequeAppendLeft(buf, x) ==
    IF Len(buf) < MaxLen THEN << x >> \o buf
    ELSE << x >> \o SubSeq(buf, 1, MaxLen - 1)

DequeAppendMutant(buf, x) ==
    IF Len(buf) < MaxLen THEN Append(buf, x) ELSE buf

DequeAppend(buf, x) ==
    IF Len(buf) < MaxLen THEN Append(buf, x) ELSE Append(Tail(buf), x)

\* the appends writes[lo..hi], in order, each stamped t
RECURSIVE ApplyRange(_, _, _, _, _)
ApplyRange(sd, writes, t, lo, hi) ==
    IF lo > hi THEN sd
    ELSE IF lo = hi
         THEN [sd EXCEPT ![writes[lo].ch] =
                            DequeAppend(@, Sample(t, writes[lo].value))]
         ELSE LET mid == (lo + hi) \div 2
                  first == ApplyRange(sd, writes, t, lo, mid)
              IN \* the test only makes TLC compute the first half now
                 IF DOMAIN first = Channels
                 THEN ApplyRange(first, writes, t, mid + 1, hi)
                 ELSE first

ApplyWrites(sd, writes, t) == ApplyRange(sd, writes, t, 1, Len(writes))

\* the same appends on the unbounded history
HistoryWrites(h, writes, t) ==
    [c \in Channels |->
        h[c] \o LET mine == SelectSeq(writes, LAMBDA w : w.ch = c)
                IN [i \in 1..Len(mine) |-> Sample(t, mine[i].value)]]

\* for each of these appends, the number of the datagram being decoded
OriginWrites(o, writes, number) ==
    [c \in Channels |->
        o[c] \o LET mine == SelectSeq(writes, LAMBDA w : w.ch = c)
                IN [i \in 1..Len(mine) |-> number]]

RECURSIVE AllWrites(_)
AllWrites(attempts) ==
    IF attempts = << >> THEN << >>
    ELSE Head(attempts).res.writes \o AllWrites(Tail(attempts))

Succeeded(attempts) == { i \in 1..Len(attempts) : attempts[i].res.ok }

\* current_data after the strategies of one datagram ran, in order
RECURSIVE ApplyUpdates(_, _, _)
ApplyUpdates(cd, sd, attempts) ==
    IF attempts = << >> THEN cd
    ELSE LET r == Head(attempts).res
             sd1 == ApplyWrites(sd, r.writes, 0)
             cd1 == IF r.ok THEN [cd EXCEPT !.last_update = r.lu] ELSE cd
             cd2 == IF r.ok /\ r.raw
                    THEN [cd1 EXCEPT !.raw_data_samples = Len(sd1[r.lu.ch])]
                    ELSE cd1
         IN ApplyUpdates(cd2, sd1, Tail(attempts))

----------------------------------------------------------------------------
(* History of the last datagram: each strategy run, in order, with its     *)
(* return value and the number of samples it appended                      *)

Ran(attempts) ==
    [i \in 1..Len(attempts) |->
        [name |-> attempts[i].name, ok |-> attempts[i].res.ok,
         n |-> Len(attempts[i].res.writes)]]

----------------------------------------------------------------------------
(* State after construction *)

InitData ==
    [heart_rate |-> None, hrv_rmssd |-> None, eda_tonic |-> None,
     temperature |-> None, activity_level |-> None, timestamp |-> 1,
     packets_received |-> 0,
     last_update |-> LU("No sensor data received", "", 0, 0),
     connection_status |-> "disconnected", raw_data_samples |-> 0]

Init ==
    /\ sensor_data = [c \in Channels |-> << >>]
    /\ current_data = InitData
    /\ packets_received = 0
    /\ last_packet_time = 0
    /\ successful_parses = 0
    /\ running = TRUE
    /\ now = 1
    /\ lpc = "start"
    /\ recv_start = 0
    /\ epc = "loop"
    /\ wake = 1
    /\ appended = [c \in Channels |-> << >>]
    /\ ran = << >>
    /\ cycle_seen = -1
    /\ handler = None
    /\ response = None
    /\ datagram = None
    /\ origin = [c \in Channels |-> << >>]

----------------------------------------------------------------------------
(* udp_listener *)

\* the while self.running test that follows every pass of the loop
\* (a variant in which the loop does not test the flag)
ListenerNextMutant == "recv"
ListenerNext == IF running THEN "recv" ELSE "done"

Bind ==
    /\ lpc = "start"
    /\ lpc' = ListenerNext
    /\ recv_start' = now
    /\ UNCHANGED <<sensor_data, current_data, packets_received, last_packet_time,
                   successful_parses, running, now, epc, wake, appended, ran, cycle_seen,
                   handler, response, datagram, origin>>

BindFail ==
    /\ lpc = "start"
    /\ lpc' = "failed"
    /\ UNCHANGED <<sensor_data, current_data, packets_received, last_packet_time,
                   successful_parses, running, now, recv_start, epc, wake,
                   appended, ran, cycle_seen,
                   handler, response, datagram, origin>>

\* self.current_data['connection_status'] = 'connected', reached after the
\* decoder chain returns, whatever it returned
ConnectionAfterMutant(attempts) ==
    IF Succeeded(attempts) # {} THEN "connected" ELSE "disconnected"
ConnectionAfter(attempts) == "connected"

Receive(payload) ==
    /\ lpc = "recv"
    /\ LET attempts == DecodeOf(payload)
           writes == AllWrites(attempts)
           cd1 == ApplyUpdates(current_data, sensor_data, attempts)
       IN /\ packets_received' = packets_received + 1
          /\ last_packet_time' = now
          /\ ran' = Ran(attempts)
          /\ successful_parses' = successful_parses + Cardinality(Succeeded(attempts))
          /\ sensor_data' = ApplyWrites(sensor_data, writes, now)
          /\ appended' = HistoryWrites(appended, writes, now)
          /\ origin' = OriginWrites(origin, writes, packets_received + 1)
          /\ current_data' = [cd1 EXCEPT !.connection_status = ConnectionAfter(attempts),
                                         !.packets_received = packets_received + 1]
    /\ lpc' = ListenerNext
    /\ recv_start' = now
    /\ UNCHANGED <<running, now, epc, wake, cycle_seen,
                   handler, response>>
    /\ datagram' = Some(payload)

\* if self.last_packet_time > 0 and (time.time() - self.last_packet_time) > 10
\* (a variant without the test that a datagram was ever received)
LostConnectionUnguarded(last, t) == t - last > StaleAfter
LostConnectionMutant(last, t) == last > 0 /\ t - last > 2 * StaleAfter
LostConnection(last, t) == last > 0 /\ t - last > StaleAfter

Timeout ==
    /\ lpc = "recv"
    /\ now - recv_start >= RecvTimeout
    /\ current_data' =
         IF LostConnection(last_packet_time, now)
         THEN [current_data EXCEPT
                 !.connection_status = "disconnected",
                 !.last_update = LU("Lost connection", "",
                                    (now - last_packet_time) \div 10, 0)]
         ELSE current_data
    /\ lpc' = ListenerNext
    /\ recv_start' = now
    /\ UNCHANGED <<sensor_data, packets_received, last_packet_time,
                   successful_parses, running, now, epc, wake, appended, ran, cycle_seen,
                   handler, response, datagram, origin>>

\* (a variant in which the error is caught outside the loop)
RecvErrorMutant ==
    /\ lpc = "recv"
    /\ lpc' = "done"
    /\ recv_start' = now
    /\ UNCHANGED <<sensor_data, current_data, packets_received, last_packet_time,
                   successful_parses, running, now, epc, wake, appended, ran, cycle_seen,
                   handler, response, datagram, origin>>

RecvError ==
    /\ lpc = "recv"
    /\ lpc' = ListenerNext
    /\ recv_start' = now
    /\ UNCHANGED <<sensor_data, current_data, packets_received, last_packet_time,
                   successful_parses, running, now, epc, wake, appended, ran, cycle_seen,
                   handler, response, datagram, origin>>

----------------------------------------------------------------------------
(* Arithmetic of the metric engine *)

RECURSIVE GCD(_, _)
GCD(a, b) == IF b = 0 THEN a ELSE GCD(b, a % b)

\* the rational n/d (d > 0) in lowest terms
Rat(n, d) == LET g == GCD(Abs(n), d) IN [n |-> n \div g, d |-> d \div g]

\* the square root of a rational, kept symbolic
Sqrt(r) == [sqrt_of |-> r]

RECURSIVE SumSeq(_)
SumSeq(s) == IF s = << >> THEN 0 ELSE Head(s) + SumSeq(Tail(s))

RECURSIVE Insert(_, _)
Insert(x, s) ==
    IF s = << >> THEN << x >>
    ELSE IF x <= Head(s) THEN << x >> \o s
    ELSE << Head(s) >> \o Insert(x, Tail(s))

RECURSIVE Sorted(_)
Sorted(s) == IF s = << >> THEN << >> ELSE Insert(Head(s), Sorted(Tail(s)))

\* twice np.median(s), for a non-empty s
Median2(s) ==
    LET t == Sorted(s)
        n == Len(t)
    IN IF n % 2 = 1 THEN 2 * t[(n + 1) \div 2] ELSE t[n \div 2] + t[n \div 2 + 1]

\* np.diff
Diff(s) == [i \in 1..(Len(s) - 1) |-> s[i + 1] - s[i]]

\* list(buf)[-k:]
Recent(buf, k) ==
    SubSeq(buf, (IF Len(buf) > k THEN Len(buf) - k + 1 ELSE 1), Len(buf))

ValuesOf(samples) == [i \in 1..Len(samples) |-> samples[i].value]
TimesOf(samples) == [i \in 1..Len(samples) |-> samples[i].timestamp]

\* values_array - np.linspace(values_array[0], values_array[-1], n), times
\* (n - 1); n >= 2
Detrended(v) ==
    LET n == Len(v) IN
    [i \in 1..n |-> (n - 1) * (v[i] - v[1]) - (v[n] - v[1]) * (i - 1)]

\* detrended[i] > mean + 0.7 * std, for the scaled series d:
\* with e = n*d[i] - sum(d) and V = n*sum(d^2) - sum(d)^2 (= n^2 * variance),
\* it is e > 0.7 * sqrt(V), that is e > 0 and 100*e^2 > 49*V
AboveThreshold(d, i) ==
    LET n == Len(d)
        S == SumSeq(d)
        V == n * SumSeq([j \in 1..n |-> d[j] * d[j]]) - S * S
        e == n * d[i] - S
    IN e > 0 /\ e * e > (49 * V) \div 100

IsPeak(d, i) ==
    /\ d[i] > d[i - 1]
    /\ d[i] > d[i + 1]
    /\ d[i] > d[i - 2]
    /\ d[i] > d[i + 2]
    /\ AboveThreshold(d, i)

\* the indices (from 1) of the peaks, ascending: range(2, len - 2) counts
\* from 0
RECURSIVE PeaksFrom(_, _)
PeaksFrom(d, i) ==
    IF i > Len(d) - 2 THEN << >>
    ELSE (IF IsPeak(d, i) THEN << i >> ELSE << >>) \o PeaksFrom(d, i + 1)

PeaksMutant(d) == PeaksFrom(d, 4)
Peaks(d) == PeaksFrom(d, 3)

\* int(x) for the rational x = n/d >= 0
IntOf(n, d) == n \div d

\* int(np.sqrt(np.mean(diff_intervals**2)) * 1000), the differences in ds:
\* the largest r with r*r*m <= 10000*sum
RootUp(r, m, x) ==
    CHOOSE k \in r..300 : k * k * m <= x /\ x < (k + 1) * (k + 1) * m

\* if len(ppg_data) > 30
EnoughPpgMutant(ppg_data) == Len(ppg_data) > 20
EnoughPpg(ppg_data) == Len(ppg_data) > 30

\* if len(peaks) >= 3
EnoughPeaksMutant(peaks) == Len(peaks) >= 2
EnoughPeaks(peaks) == Len(peaks) >= 3

\* (a variant in which the HRV block stands beside the range test on the
\* heart rate, not inside it)
HeartBlockMutant(ppg_data) ==
    LET nothing == [heart_rate |-> None, hrv_rmssd |-> None] IN
    IF EnoughPpg(ppg_data)
    THEN LET recent_data == Recent(ppg_data, 50)
             timestamps == TimesOf(recent_data)
             peaks == Peaks(Detrended(ValuesOf(recent_data)))
         IN IF Len(recent_data) > 20 /\ EnoughPeaks(peaks)
            THEN LET intervals == Diff([i \in 1..Len(peaks) |-> timestamps[peaks[i]]])
                     med2 == Median2(intervals)
                 IN IF med2 > 0
                    THEN [heart_rate |->
                            IF 30 * med2 <= 1200 /\ 1200 <= 200 * med2
                            THEN Some(IntOf(1200, med2)) ELSE None,
                          hrv_rmssd |->
                            IF Len(intervals) > 2
                            THEN LET dd == Diff(intervals)
                                     m == Len(dd)
                                     x == 10000 * SumSeq([j \in 1..m |-> dd[j] * dd[j]])
                                 IN IF 25 * m <= x /\ x <= 90000 * m
                                    THEN Some(RootUp(0, m, x))
                                    ELSE None
                            ELSE None]
                    ELSE nothing
            ELSE nothing
    ELSE nothing

\* what the heart-rate block of one cycle writes: None = no write
HeartBlock(ppg_data) ==
    LET nothing == [heart_rate |-> None, hrv_rmssd |-> None] IN
    IF EnoughPpg(ppg_data)
    THEN LET recent_data == Recent(ppg_data, 50)
             values == ValuesOf(recent_data)
             timestamps == TimesOf(recent_data)
             detrended == Detrended(values)
             peaks == Peaks(detrended)
         IN IF Len(values) > 20 /\ EnoughPeaks(peaks)
            THEN LET peak_times == [i \in 1..Len(peaks) |-> timestamps[peaks[i]]]
                     intervals == Diff(peak_times)
                     med2 == Median2(intervals)
                 IN \* avg_interval = med2/20 s; heart_rate = 1200/med2
                    IF med2 > 0 /\ 30 * med2 <= 1200 /\ 1200 <= 200 * med2
                    THEN [heart_rate |-> Some(IntOf(1200, med2)),
                          hrv_rmssd |->
                            IF Len(intervals) > 2
                            THEN LET dd == Diff(intervals)
                                     m == Len(dd)
                                     x == 10000 * SumSeq([j \in 1..m |-> dd[j] * dd[j]])
                                 IN \* 5 <= rmssd <= 300, squared
                                    IF 25 * m <= x /\ x <= 90000 * m
                                    THEN Some(RootUp(0, m, x))
                                    ELSE None
                            ELSE None]
                    ELSE nothing
            ELSE nothing
    ELSE nothing

\* (a variant that runs from 10 samples on: >= 10 in place of > 10)
EdaBlockFromTen(eda_data) ==
    IF Len(eda_data) >= 10
    THEN LET tonic2 == Median2(ValuesOf(Recent(eda_data, 20)))
         IN IF 0 <= tonic2 /\ tonic2 <= 2 * 100
            THEN Some(Rat(tonic2, 2)) ELSE None
    ELSE None

\* the EDA block with the activity block's slice, [-30:], in place of [-20:]
EdaBlockMutant(eda_data) ==
    IF Len(eda_data) > 10
    THEN LET tonic2 == Median2(ValuesOf(Recent(eda_data, 30)))
         IN IF 0 <= tonic2 /\ tonic2 <= 2 * 100
            THEN Some(Rat(tonic2, 2)) ELSE None
    ELSE None

EdaBlock(eda_data) ==
    IF Len(eda_data) > 10
    THEN LET recent_values == ValuesOf(Recent(eda_data, 20))
             tonic2 == Median2(recent_values)
         IN IF 0 <= tonic2 /\ tonic2 <= 2 * 100
            THEN Some(Rat(tonic2, 2)) ELSE None
    ELSE None

ActivityBlock(accel_data) ==
    IF Len(accel_data) > 15
    THEN LET v == ValuesOf(Recent(accel_data, 30))
             n == Len(v)
             S == SumSeq(v)
         IN \* np.std: the square root of (n*sum(v^2) - sum(v)^2) / n^2
            Some(Sqrt(Rat(n * SumSeq([j \in 1..n |-> v[j] * v[j]]) - S * S, n * n)))
    ELSE None

\* (a variant that writes the mean whatever its value)
TemperatureBlockMutant(temp_data) ==
    IF Len(temp_data) > 5
    THEN LET v == ValuesOf(Recent(temp_data, 10))
             n == Len(v)
         IN Some(Rat(SumSeq(v), n))
    ELSE None

TemperatureBlock(temp_data) ==
    IF Len(temp_data) > 5
    THEN LET v == ValuesOf(Recent(temp_data, 10))
             n == Len(v)
             S == SumSeq(v)
         IN IF 15 * n <= S /\ S <= 60 * n THEN Some(Rat(S, n)) ELSE None
    ELSE None

\* a block that wrote nothing leaves the field as it was
Keep(old, written) == IF written = None THEN old ELSE written

\* (a variant in which a skipped EDA block ends the cycle's computation)
calculate_enhanced_metricsMutant(cd, sd) ==
    LET hb == HeartBlock(sd["PPG_INFRARED"])
        eda == EdaBlock(sd["EDA"])
    IN [cd EXCEPT
          !.heart_rate = Keep(@, hb.heart_rate),
          !.hrv_rmssd = Keep(@, hb.hrv_rmssd),
          !.eda_tonic = Keep(@, eda),
          !.activity_level =
              IF eda = None THEN @
              ELSE Keep(@, ActivityBlock(sd["ACCELEROMETER_X"])),
          !.temperature =
              IF eda = None THEN @
              ELSE Keep(@, TemperatureBlock(sd["TEMPERATURE_0"]))]

calculate_enhanced_metrics(cd, sd) ==
    LET hb == HeartBlock(sd["PPG_INFRARED"]) IN
    [cd EXCEPT
       !.heart_rate = Keep(@, hb.heart_rate),
       !.hrv_rmssd = Keep(@, hb.hrv_rmssd),
       !.eda_tonic = Keep(@, EdaBlock(sd["EDA"])),
       !.activity_level = Keep(@, ActivityBlock(sd["ACCELEROMETER_X"])),
       !.temperature = Keep(@, TemperatureBlock(sd["TEMPERATURE_0"]))]

----------------------------------------------------------------------------
(* process_loop *)

\* if self.packets_received > 0 and self.successful_parses > 0
HasDataMutant(received, parsed) == received > 0
HasData(received, parsed) == received > 0 /\ parsed > 0

Cycle ==
    /\ epc = "loop"
    /\ running
    /\ now >= wake
    /\ LET cd1 == IF HasData(packets_received, successful_parses)
                  THEN calculate_enhanced_metrics(current_data, sensor_data)
                  ELSE [current_data EXCEPT
                          !.heart_rate = None,
                          !.hrv_rmssd = None,
                          !.eda_tonic = None,
                          !.temperature = None,
                          !.activity_level = None,
                          !.last_update = LU("Received", "", packets_received,
                                             successful_parses)]
       IN current_data' = [cd1 EXCEPT !.timestamp = now]
    /\ wake' = now + SleepInterval
    /\ cycle_seen' = packets_received
    /\ UNCHANGED <<sensor_data, packets_received, last_packet_time,
                   successful_parses, running, now, lpc, recv_start, epc,
                   appended, ran,
                   handler, response, datagram, origin>>

EngineExit ==
    /\ epc = "loop"
    /\ ~running
    /\ now >= wake
    /\ epc' = "done"
    /\ UNCHANGED <<sensor_data, current_data, packets_received, last_packet_time,
                   successful_parses, running, now, lpc, recv_start, wake,
                   appended, ran, cycle_seen,
                   handler, response, datagram, origin>>

----------------------------------------------------------------------------
(* Environment: the clock and the operator's Ctrl+C *)

Tick(d) ==
    /\ now' = now + d
    /\ UNCHANGED <<sensor_data, current_data, packets_received, last_packet_time,
                   successful_parses, running, lpc, recv_start, epc, wake,
                   appended, ran, cycle_seen,
                   handler, response, datagram, origin>>

Shutdown ==
    /\ running
    /\ running' = FALSE
    /\ UNCHANGED <<sensor_data, current_data, packets_received, last_packet_time,
                   successful_parses, now, lpc, recv_start, epc, wake,
                   appended, ran, cycle_seen,
                   handler, response, datagram, origin>>

----------------------------------------------------------------------------
(* make_handler: BridgeHandler.do_GET for the paths /data and /status.  The  *)
(* handler reads the bridge without a lock: successful_parses first, then    *)
(* packets_received.  Of the response only the parse rate is kept.           *)

Paths == {"/data", "/status"}

Max(a, b) == IF a >= b THEN a ELSE b

\* bridge.successful_parses / max(bridge.packets_received, 1) * 100
parse_rateMutant(parsed, received) == Rat(parsed, Max(received, 1))
parse_rate(parsed, received) == Rat(100 * parsed, Max(received, 1))

\* the request arrives while serve_forever runs; the numerator is read
QueryRead(path) ==
    /\ running
    /\ handler = None
    /\ handler' = Some([path |-> path, parsed |-> successful_parses])
    /\ UNCHANGED <<sensor_data, current_data, packets_received, last_packet_time,
                   successful_parses, running, now, lpc, recv_start, epc, wake,
                   appended, ran, cycle_seen, response, datagram, origin>>

\* (a variant in which the handler also clears the parse counter)
QueryRespondMutant ==
    /\ handler # None
    /\ response' = Some([path |-> handler[1].path,
                         parse_rate |-> parse_rate(handler[1].parsed,
                                                   packets_received)])
    /\ handler' = None
    /\ successful_parses' = 0
    /\ UNCHANGED <<sensor_data, current_data, packets_received, last_packet_time,
                   running, now, lpc, recv_start, epc, wake,
                   appended, ran, cycle_seen, datagram, origin>>

\* the denominator is read and the response is written
QueryRespond ==
    /\ handler # None
    /\ response' = Some([path |-> handler[1].path,
                         parse_rate |-> parse_rate(handler[1].parsed,
                                                   packets_received)])
    /\ handler' = None
    /\ UNCHANGED <<sensor_data, current_data, packets_received, last_packet_time,
                   successful_parses, running, now, lpc, recv_start, epc, wake,
                   appended, ran, cycle_seen, datagram, origin>>

----------------------------------------------------------------------------
(* Specifications *)

ReceiveFrom(menu, maxPackets) ==
    /\ packets_received < maxPackets
    /\ \E payload \in menu : Receive(payload)

TickBy(steps, maxTime) ==
    \E d \in steps : now + d <= maxTime /\ Tick(d)

Next ==
    \/ Bind
    \/ BindFail
    \/ ReceiveFrom(Menu, MaxPackets)
    \/ Timeout
    \/ RecvError
    \/ Cycle
    \/ EngineExit
    \/ TickBy({SleepInterval}, MaxTime)
    \/ Shutdown

Spec == Init /\ [][Next]_vars

\* the heart-rate windows: PPG rows 0.8 s apart, over less than the 2 s that
\* recvfrom waits before it times out
NextHR ==
    \/ Bind
    \/ BindFail
    \/ ReceiveFrom(MenuHR, MaxPacketsHR)
    \/ RecvError
    \/ Cycle
    \/ EngineExit
    \/ TickBy({8}, MaxTimeHR)
    \/ Shutdown

SpecHR == Init /\ [][NextHR]_vars

\* the connection state over more than ten seconds
TickConn == TickBy({RecvTimeout}, MaxTimeConn)

NextConn ==
    \/ Bind
    \/ BindFail
    \/ ReceiveFrom(MenuConn, MaxPacketsConn)
    \/ Timeout
    \/ RecvError
    \/ Cycle
    \/ EngineExit
    \/ TickConn
    \/ Shutdown

\* the three components together: listener, engine and HTTP handler
NextQuery ==
    \/ Bind
    \/ BindFail
    \/ ReceiveFrom(MenuConn, MaxPacketsQuery)
    \/ Timeout
    \/ RecvError
    \/ Cycle
    \/ EngineExit
    \/ TickBy({SleepInterval}, MaxTimeQuery)
    \/ Shutdown
    \/ \E path \in Paths : QueryRead(path)
    \/ QueryRespond

SpecQuery == Init /\ [][NextQuery]_vars

\* the parse rate over the counters: the state after `parsed` datagrams
\* "EDA: 7" and then `received - parsed` datagrams "hello", all at time 1,
\* before any cycle and any request
InitRate ==
    \E received \in 0..MaxReceived : \E parsed \in 0..received :
        LET samples == [c \in Channels |->
                           IF c = "EDA" THEN Repeat(Sample(1, 7), parsed)
                           ELSE << >>]
        IN /\ sensor_data = samples
           /\ appended = samples
           /\ packets_received = received
           /\ successful_parses = parsed
           /\ current_data =
                [InitData EXCEPT
                   !.packets_received = received,
                   !.connection_status =
                       IF received > 0 THEN "connected" ELSE "disconnected",
                   !.last_update =
                       IF parsed > 0 THEN LU("Structured", "EDA", 7, 0) ELSE @]
           /\ last_packet_time = (IF received > 0 THEN 1 ELSE 0)
           /\ lpc = (IF received > 0 THEN "recv" ELSE "start")
           /\ recv_start = (IF received > 0 THEN 1 ELSE 0)
           /\ ran = (IF received = 0 THEN << >>
                     ELSE IF received > parsed THEN Ran(Decoded[PJunk])
                     ELSE Ran(Decoded[PKv]))
           /\ running = TRUE
           /\ now = 1
           /\ epc = "loop"
           /\ wake = 1
           /\ cycle_seen = -1
           /\ handler = None
           /\ response = None
           /\ datagram = (IF received = 0 THEN None
                          ELSE IF received > parsed THEN Some(PJunk)
                          ELSE Some(PKv))
           /\ origin = [c \in Channels |->
                           IF c = "EDA" THEN Count(parsed) ELSE << >>]

NextRate ==
    \/ \E path \in Paths : QueryRead(path)
    \/ QueryRespond

SpecRate == InitRate /\ [][NextRate]_vars

\* the metric engine over chosen windows.  The state after one datagram
\* "1,<channel>,<value>" per sample: 35 PPG samples with five peaks whose
\* arrival times are spaced by the gaps g (time 1 for the samples up to the
\* first peak), then 11 EDA samples e and 6 temperature samples t, before any
\* cycle
PeakPositions == << 5, 11, 17, 23, 29 >>
Gaps == {2, 3, 8, 9, 20, 21}
\* an EDA level with a temperature
Levels == { << -1, 14 >>, << 0, 60 >>, << 100, 15 >>, << 101, 61 >> }

\* the number of peaks at or before sample i
PeaksUpTo(i) == Cardinality({k \in 1..Len(PeakPositions) : PeakPositions[k] <= i})

PpgSamples(g) ==
    LET at == [k \in 1..Len(PeakPositions) |-> 1 + SumSeq(SubSeq(g, 1, k - 1))]
    IN [i \in 1..35 |->
          Sample(at[Max(PeaksUpTo(i), 1)],
                 IF \E k \in 1..Len(PeakPositions) : PeakPositions[k] = i
                 THEN 1 ELSE 0)]

MetricsState(g, level) ==
        LET e == level[1]
            t == level[2]
            ppg == PpgSamples(g)
            last == ppg[Len(ppg)].timestamp
            samples == [c \in Channels |->
                           CASE c = "PPG_INFRARED" -> ppg
                             [] c = "EDA" -> Repeat(Sample(last, e), 11)
                             [] c = "TEMPERATURE_0" -> Repeat(Sample(last, t), 6)
                             [] OTHER -> << >>]
            received == Len(ppg) + 11 + 6
        IN /\ sensor_data = samples
           /\ appended = samples
           /\ packets_received = received
           /\ successful_parses = received
           /\ current_data =
                [InitData EXCEPT
                   !.packets_received = received,
                   !.connection_status = "connected",
                   !.last_update = LU("CSV", "TEMPERATURE_0", t, 0)]
           /\ last_packet_time = last
           /\ lpc = "recv"
           /\ recv_start = last
           /\ ran = << [name |-> "xml", ok |-> FALSE, n |-> 0],
                       [name |-> "csv", ok |-> TRUE, n |-> 1] >>
           /\ running = TRUE
           /\ now = last
           /\ epc = "loop"
           /\ wake = 1
           /\ cycle_seen = -1
           /\ handler = None
           /\ response = None
           /\ datagram = Some(CsvRow("TEMPERATURE_0", << t >>))
           /\ origin = [c \in Channels |->
                           [j \in 1..Len(sensor_data[c]) |->
                               j + CASE c = "EDA" -> Len(sensor_data["PPG_INFRARED"])
                                      [] c = "TEMPERATURE_0" ->
                                           Len(sensor_data["PPG_INFRARED"]) + 11
                                      [] OTHER -> 0]]

InitMetrics == \E g \in [1..4 -> Gaps] : \E level \in Levels : MetricsState(g, level)

NextMetrics ==
    \/ Cycle
    \/ EngineExit
    \/ Shutdown

SpecMetrics == InitMetrics /\ [][NextMetrics]_vars

\* recvfrom returns after its 2 s timeout, and time passes
SpecConn == Init /\ [][NextConn]_vars /\ WF_vars(Timeout) /\ WF_vars(TickConn)

\* the first datagram only
ReceiveFirst(menu) ==
    /\ datagram = None
    /\ \E payload \in menu : Receive(payload)

\* all the sequences over S of length 0..n
SeqsUpTo(S, n) == UNION { [1..k -> S] : k \in 0..n }

\* the tagged-type strategy over "<type>EDA</type> v1 v2 ..." with up to
\* MaxXmlValues values (kept ones, the sentinel, one too large) and over
\* "<type>TEMPERATURE_0</type> v1 ..." with up to MaxShort values
XmlValues == { 5, -99999, 3000, 100000 }

SpacedValues(vals) ==
    [i \in 1..(2 * Len(vals)) |->
        IF i % 2 = 1 THEN TSep(" ") ELSE TNum(vals[i \div 2])]

XmlText(name, vals) == << TOpen, name, TClose >> \o SpacedValues(vals)

XmlPayloads ==
    { XmlText(TName("EDA"), vals) : vals \in SeqsUpTo(XmlValues, MaxXmlValues) }
    \cup { XmlText(TName("TEMPERATURE_0"), vals) : vals \in SeqsUpTo(XmlValues, MaxShort) }

NextXml ==
    \/ Bind
    \/ ReceiveFirst(XmlPayloads)

SpecXml == Init /\ [][NextXml]_vars

\* the delimited-fields strategy over "1,NAME,f3,f4,..." with up to
\* MaxCsvFields fields after the name: numerals kept (the sentinel among
\* them), one too large, one that is no numeral; the name is written
\* " EDA ", or "eda" with up to MaxShort fields
CsvFields == { TNum(5), TNum(3000), TNum(-100000), TWord("abc") }

CommaFields(fields) ==
    [i \in 1..(2 * Len(fields)) |->
        IF i % 2 = 1 THEN TComma ELSE fields[i \div 2]]

CsvText(name, fields) == << TNum(1), TComma >> \o name \o CommaFields(fields)

CsvPayloads ==
    { CsvText(<< TSep(" "), TName("EDA"), TSep(" ") >>, fields) :
        fields \in SeqsUpTo(CsvFields, MaxCsvFields) }
    \cup { CsvText(<< TLower("EDA") >>, fields) : fields \in SeqsUpTo(CsvFields, MaxShort) }

NextCsv ==
    \/ Bind
    \/ ReceiveFirst(CsvPayloads)

SpecCsv == Init /\ [][NextCsv]_vars

\* the heuristic-numeric strategy over "v1 v2 ..." (each written with a
\* ".0"): up to MaxShort values on and beside the edges of the bands and of
\* the filter, and up to MaxNumericValues values among an accelerometer
\* value, the sentinel and a value of no band
BandEdges ==
    { -1001, -1000, -51, -50, -1, 0, 10, 11, 19, 20, 50, 51, 499, 500,
      5000, 5001, 10000, 10001 }
LongValues == { 15, 3000, 100 }

NumericText(vals) == Tail([i \in 1..(2 * Len(vals)) |->
                             IF i % 2 = 1 THEN TSep(" ") ELSE TDec(vals[i \div 2])])

NumericPayloads ==
    { NumericText(vals) : vals \in SeqsUpTo(BandEdges, MaxShort) \ { << >> } }
    \cup { NumericText(vals) : vals \in SeqsUpTo(LongValues, MaxNumericValues) \ { << >> } }

NextNumeric ==
    \/ Bind
    \/ ReceiveFirst(NumericPayloads)

SpecNumeric == Init /\ [][NextNumeric]_vars

\* key-value payloads: up to MaxPairs pairs "NAME<sep>value" joined by spaces,
\* among "EDA: 7", "eda=5", "PPG_RED 12.0", "TEMPERATURE_0: 13.0", "HEART: 6"
\* and "GYROSCOPE_Z=8"
KvPairs ==
    { << TName("EDA"), TSep(":"), TSep(" "), TNum(7) >>,
      << TLower("EDA"), TSep("="), TNum(5) >>,
      << TName("PPG_RED"), TSep(" "), TDec(12) >>,
      << TName("TEMPERATURE_0"), TSep(":"), TSep(" "), TDec(13) >>,
      << TWord("HEART"), TSep(":"), TSep(" "), TNum(6) >>,
      << TName("GYROSCOPE_Z"), TSep("="), TNum(8) >> }

RECURSIVE JoinPairs(_)
JoinPairs(pairs) ==
    IF Len(pairs) = 1 THEN pairs[1]
    ELSE pairs[1] \o << TSep(" ") >> \o JoinPairs(Tail(pairs))

KvPayloads == { JoinPairs(pairs) : pairs \in SeqsUpTo(KvPairs, MaxPairs) \ { << >> } }

NextKv ==
    \/ Bind
    \/ ReceiveFirst(KvPayloads)

SpecKv == Init /\ [][NextKv]_vars

\* a second cycle over a changed window: from a buffer of 35 PPG samples with
\* five peaks 0.8 s or 0.9 s apart, rows of 20 flat PPG samples arrive and push
\* the peaks out of the most recent 50
StaleGaps == {8, 9}

InitStale == \E g \in [1..4 -> StaleGaps] : MetricsState(g, << 0, 60 >>)

NextStale ==
    \/ ReceiveFrom({PFlat}, MaxPacketsStale)
    \/ Cycle
    \/ EngineExit
    \/ TickBy({SleepInterval}, MaxTimeStale)
    \/ Shutdown

SpecStale == InitStale /\ [][NextStale]_vars

\* the same with peaks 0.2 s, 0.3 s or 0.8 s apart: heart rates above 200 as
\* well as within the range, each with an RMSSD inside or outside [5, 300]
PairGaps == {2, 3, 8}

InitPair == \E g \in [1..4 -> PairGaps] : MetricsState(g, << 0, 60 >>)

SpecPair == InitPair /\ [][NextStale]_vars

\* EDA rows whose medians fall inside, on the ends of and outside [0, 100]:
\* "1,EDA,0,100,101" and "1,EDA,3,250,1,99,100,0,7,4,6,8"
PEdaEdge == CsvRow("EDA", << 0, 100, 101 >>)
PEdaMixed == CsvRow("EDA", << 3, 250, 1, 99, 100, 0, 7, 4, 6, 8 >>)

MenuEda == { PEdaEdge, PEdaMixed, PEdaLow, PEdaHigh }

NextEda ==
    \/ Bind
    \/ ReceiveFrom(MenuEda, MaxPacketsEda)
    \/ Cycle
    \/ EngineExit
    \/ TickBy({SleepInterval \div 2}, MaxTimeEda)
    \/ Shutdown

SpecEda == Init /\ [][NextEda]_vars

\* PPG rows with two beats in one datagram: ten samples with peaks at the
\* third and the eighth
PTwin == CsvRow("PPG_INFRARED", << 0, 0, 1, 0, 0, 0, 0, 1, 0, 0 >>)

MenuBeat == { PTwin, PPeak, PFlat }

NextBeat ==
    \/ Bind
    \/ ReceiveFrom(MenuBeat, MaxPacketsBeat)
    \/ Cycle
    \/ EngineExit
    \/ TickBy({8}, MaxTimeBeat)
    \/ Shutdown

SpecBeat == Init /\ [][NextBeat]_vars

\* rows that fill a buffer up to its minimum and one sample beyond it:
\* 10 and 11 EDA samples, 15 and 16 accelerometer-X samples, 5 and 6
\* temperature samples
PEda10 == CsvRow("EDA", Repeat(5, 10))
PAccel15 == CsvRow("ACCELEROMETER_X", Repeat(12, 15))
PAccel16 == CsvRow("ACCELEROMETER_X", Repeat(12, 16))
PTemp5 == CsvRow("TEMPERATURE_0", Repeat(36, 5))
PTemp6 == CsvRow("TEMPERATURE_0", Repeat(36, 6))

MenuMin == { PEda10, PEdaLow, PAccel15, PAccel16, PTemp5, PTemp6 }

NextMin ==
    \/ Bind
    \/ ReceiveFrom(MenuMin, MaxPacketsMin)
    \/ Cycle
    \/ EngineExit
    \/ TickBy({SleepInterval}, MaxTimeMin)
    \/ Shutdown

SpecMin == Init /\ [][NextMin]_vars

\* payloads of several lines.  Each line with what the loop of
\* parse_csv_format makes of it: whether it qualifies (a comma, three parts,
\* a known channel in the second) and the values that survive
CsvLineTable ==
    { [text |-> CsvRow("EDA", << 5 >>),                    \* "1,EDA,5"
       qualifies |-> TRUE, ch |-> "EDA", values |-> << 5 >>],
      [text |-> CsvRow("PPG_RED", << 7, 8 >>),             \* "1,PPG_RED,7,8"
       qualifies |-> TRUE, ch |-> "PPG_RED", values |-> << 7, 8 >>],
      [text |-> CsvText(<< TName("EDA") >>, << TWord("abc") >>),  \* "1,EDA,abc"
       qualifies |-> TRUE, ch |-> "EDA", values |-> << >>],
      [text |-> CsvRow("TEMPERATURE_0", << 100000 >>),     \* "1,TEMPERATURE_0,100000"
       qualifies |-> TRUE, ch |-> "TEMPERATURE_0", values |-> << >>],
      [text |-> << TNum(1), TComma, TWord("HEART"), TComma, TNum(9) >>,  \* "1,HEART,9"
       qualifies |-> FALSE, ch |-> "", values |-> << >>],
      [text |-> << TWord("hello") >>,                      \* "hello"
       qualifies |-> FALSE, ch |-> "", values |-> << >>] }

RECURSIVE JoinLines(_)
JoinLines(texts) ==
    IF Len(texts) = 1 THEN texts[1]
    ELSE texts[1] \o << TNl >> \o JoinLines(Tail(texts))

LinePayloads ==
    { JoinLines([j \in 1..Len(ls) |-> ls[j].text]) :
        ls \in SeqsUpTo(CsvLineTable, MaxLines) \ { << >> } }

NextLines ==
    \/ Bind
    \/ ReceiveFirst(LinePayloads)

SpecLines == Init /\ [][NextLines]_vars

\* the listener statement by statement, for the requests that fall between
\* its statements: self.packets_received += 1 stands before the call of the
\* decoder, which is where successful_parses is incremented
CountOrderMutant == "after"
CountOrder == "before"

\* self.packets_received += 1; self.last_packet_time = time.time()
CountDatagram ==
    /\ packets_received' = packets_received + 1
    /\ last_packet_time' = now
    /\ UNCHANGED <<sensor_data, current_data, successful_parses, appended, ran,
                   origin>>

\* self.parse_emotibit_data_improved(data_string)
DecodeDatagram(payload) ==
    LET attempts == DecodeOf(payload)
        writes == AllWrites(attempts)
    IN /\ ran' = Ran(attempts)
       /\ successful_parses' = successful_parses + Cardinality(Succeeded(attempts))
       /\ sensor_data' = ApplyWrites(sensor_data, writes, now)
       /\ appended' = HistoryWrites(appended, writes, now)
       /\ origin' = OriginWrites(origin, writes, packets_received)
       /\ current_data' = ApplyUpdates(current_data, sensor_data, attempts)
       /\ UNCHANGED <<packets_received, last_packet_time>>

\* recvfrom returns a datagram and the first statement runs
ReceiveBegin(payload) ==
    /\ lpc = "recv"
    /\ lpc' = "first"
    /\ datagram' = Some(payload)
    /\ IF CountOrder = "before" THEN CountDatagram ELSE DecodeDatagram(payload)
    /\ UNCHANGED <<running, now, recv_start, epc, wake, cycle_seen, handler, response>>

\* the second statement runs
ReceiveEnd ==
    /\ lpc = "first"
    /\ lpc' = "second"
    /\ IF CountOrder = "before" THEN DecodeDatagram(datagram[1]) ELSE CountDatagram
    /\ UNCHANGED <<running, now, recv_start, epc, wake, cycle_seen, handler,
                   response, datagram>>

\* the two assignments to current_data, and back to the head of the loop
ReceivePublish ==
    /\ lpc = "second"
    /\ current_data' =
         [current_data EXCEPT
            !.connection_status = ConnectionAfter(DecodeOf(datagram[1])),
            !.packets_received = packets_received]
    /\ lpc' = ListenerNext
    /\ recv_start' = now
    /\ UNCHANGED <<sensor_data, packets_received, last_packet_time,
                   successful_parses, running, now, epc, wake, appended, ran,
                   cycle_seen, handler, response, datagram, origin>>

\* listener and HTTP handler side by side, every statement of the one
\* between the two reads of the other
NextRace ==
    \/ Bind
    \/ packets_received < MaxPacketsRace /\ \E payload \in MenuConn : ReceiveBegin(payload)
    \/ ReceiveEnd
    \/ ReceivePublish
    \/ \E path \in Paths : QueryRead(path)
    \/ QueryRespond
    \/ Shutdown

SpecRace == Init /\ [][NextRace]_vars

\* shutdown: once Ctrl+C was pressed the clock runs on for as long as a loop
\* is still inside its receive wait or its sleep
TickStop ==
    \E d \in {RecvTimeout \div 2} :
        /\ \/ running /\ now + d <= MaxTimeStop
           \/ ~running /\ lpc = "recv" /\ now < recv_start + RecvTimeout
           \/ ~running /\ epc = "loop" /\ now < wake
        /\ Tick(d)

NextStop ==
    \/ Bind
    \/ BindFail
    \/ ReceiveFrom(MenuConn, MaxPacketsStop)
    \/ Timeout
    \/ RecvError
    \/ Cycle
    \/ EngineExit
    \/ TickStop
    \/ Shutdown

\* both threads get to run, time passes, and a receive wait ends at its
\* timeout
SpecStop ==
    /\ Init /\ [][NextStop]_vars
    /\ WF_vars(Bind \/ BindFail) /\ WF_vars(Timeout) /\ WF_vars(EngineExit)
    /\ WF_vars(TickStop)

----------------------------------------------------------------------------
(* Properties *)

DatagramStep == packets_received' # packets_received
SomeOk(r) == \E i \in 1..Len(r) : r[i].ok
ValuesIn(samples) == [i \in 1..Len(samples) |-> samples[i].value]
NewSamples(c) == SubSeq(appended'[c], Len(appended[c]) + 1, Len(appended'[c]))

\* C1: every buffer holds exactly the last min(N, 200) of the N samples
\* appended to its channel, in arrival order; for N > 200 its length is 200
\* and its oldest sample is the (N-199)th appended.
C1_RingBuffer ==
    \A c \in Channels :
        LET N == Len(appended[c]) IN
        /\ Len(sensor_data[c]) = (IF N < 200 THEN N ELSE 200)
        /\ sensor_data[c] = SubSeq(appended[c], (IF N > 200 THEN N - 199 ELSE 1), N)

\* more than 200 appends to a channel, the last datagram alone bringing more
\* than 200 of them
C1_Witness ==
    /\ Len(appended["EDA"]) > 201
    /\ \E i \in 1..Len(ran) : ran[i].n > 200

\* C2: the strategies run on a datagram are a prefix of tagged-type,
\* delimited-fields, heuristic-numeric, key-value; every strategy before the
\* last one run failed and appended nothing, and the chain stops short of
\* the fourth only on a success: at most one strategy writes samples.
C2_FirstSuccessStops ==
    /\ Len(ran) <= 4
    /\ \A i \in 1..Len(ran) :
        /\ ran[i].name = << "xml", "csv", "numeric", "structured" >>[i]
        /\ i < Len(ran) => ~ran[i].ok /\ ran[i].n = 0
        /\ (i = Len(ran) /\ i < 4) => ran[i].ok
    /\ Cardinality({ i \in 1..Len(ran) : ran[i].n > 0 }) <= 1

\* a datagram decoded by the third strategy, the first two having failed
C2_Witness ==
    /\ Len(ran) = 3
    /\ ~ran[1].ok /\ ~ran[2].ok
    /\ ran[3].name = "numeric" /\ ran[3].ok /\ ran[3].n = 2

\* the payload has a delimited line that yields values for a channel and a
\* key-value match for the same channel with a value that is none of them
BothForms(p, c) ==
    LET csv == parse_csv_format(p)
        kv == KvSearch(p, c)
    IN /\ csv.ok
       /\ csv.lu.ch = c
       /\ kv # None
       /\ \A i \in 1..Len(csv.writes) : csv.writes[i].value # kv[1]

\* for each payload of the menu and each channel: is it of that shape, and is
\* it left undecoded by the tagged-type strategy
BothFormsInMenu ==
    [pc \in Menu \X Channels |-> BothForms(pc[1], pc[2])] @@ << >>

NoTaggedType == [p \in Menu |-> ~parse_xml_format(p).ok] @@ << >>

\* receiving p appends to c the delimited values and nothing else
DelimitedWins(p, c) ==
    LET csv == parse_csv_format(p) IN
    /\ ValuesIn(NewSamples(c)) = [i \in 1..Len(csv.writes) |-> csv.writes[i].value]
    /\ \A i \in 1..Len(NewSamples(c)) : NewSamples(c)[i].value # KvSearch(p, c)[1]
    /\ ran'[Len(ran')].name = "csv"

\* C3, as stated: a payload matching both the delimited-fields and the
\* key-value pattern for one channel with different values is decoded by the
\* delimited-fields strategy: only the delimited values are appended.
C3_Original ==
    [][\A pc \in Menu \X Channels :
          (BothFormsInMenu[pc] /\ Receive(pc[1]))
              => DelimitedWins(pc[1], pc[2])]_vars

\* C3, amended: the same, for a payload the tagged-type strategy does not
\* decode.
C3_DelimitedBeforeKeyValue ==
    [][\A pc \in Menu \X Channels :
          (BothFormsInMenu[pc] /\ NoTaggedType[pc[1]] /\ Receive(pc[1]))
              => DelimitedWins(pc[1], pc[2])]_vars

\* such a payload was decoded: the delimited strategy ran second and won,
\* and the channel ends with the delimited value 5, not the key-value 7
C3_Witness ==
    /\ BothForms(PCsvKv, "EDA")
    /\ ran = Ran(Decoded[PCsvKv])
    /\ Len(ran) = 2 /\ ran[2].name = "csv" /\ ran[2].ok
    /\ Len(sensor_data["EDA"]) > 0
    /\ sensor_data["EDA"][Len(sensor_data["EDA"])].value = 5

\* C4: a received datagram adds exactly 1 to packets_received, and exactly 1
\* to successful_parses if a strategy succeeded and 0 otherwise; neither
\* counter ever decreases.
C4_Counters ==
    [][/\ (\E p \in AllPayloads : Receive(p)) =>
            /\ packets_received' = packets_received + 1
            /\ successful_parses' =
                 successful_parses + (IF SomeOk(ran') THEN 1 ELSE 0)
       /\ packets_received' >= packets_received
       /\ successful_parses' >= successful_parses]_vars

\* two datagrams were received, one decoded and one rejected
C4_Witness == packets_received = 2 /\ successful_parses = 1

\* a step of the metric engine's cycle: the only step that moves its wake-up
CycleStep == wake' # wake

\* C5, as stated: after every cycle, a metric is present only if the window
\* read in that cycle met its minimum-sample rule and the value computed from
\* it passed its plausibility range.
C5_Original ==
    [][CycleStep =>
         LET hb == HeartBlock(sensor_data["PPG_INFRARED"]) IN
         /\ current_data'.heart_rate # None => hb.heart_rate # None
         /\ current_data'.hrv_rmssd # None => hb.hrv_rmssd # None
         /\ current_data'.eda_tonic # None => EdaBlock(sensor_data["EDA"]) # None
         /\ current_data'.activity_level # None =>
                ActivityBlock(sensor_data["ACCELEROMETER_X"]) # None
         /\ current_data'.temperature # None =>
                TemperatureBlock(sensor_data["TEMPERATURE_0"]) # None]_vars

\* C6: whenever the PPG-infrared buffer holds fewer than 31 samples,
\* heart_rate is absent.
C6_FewSamplesNoHeartRate ==
    Len(sensor_data["PPG_INFRARED"]) < 31 => current_data.heart_rate = None

\* a cycle has read a buffer of 30 samples carrying three detectable peaks,
\* and wrote no heart rate
C6_Witness ==
    /\ cycle_seen = packets_received
    /\ successful_parses > 0
    /\ Len(sensor_data["PPG_INFRARED"]) = 30
    /\ Len(Peaks(Detrended(ValuesOf(sensor_data["PPG_INFRARED"])))) >= 3
    /\ current_data.heart_rate = None

\* C7, as stated: after a cycle in which the most recent 20 EDA samples have
\* a median greater than 100, eda_tonic is absent.
C7_Original ==
    [][(/\ CycleStep
        /\ Len(sensor_data["EDA"]) > 0
        /\ Median2(ValuesOf(Recent(sensor_data["EDA"], 20))) > 2 * 100)
            => current_data'.eda_tonic = None]_vars

\* the window of the heart-rate block
PpgWindow == Recent(sensor_data["PPG_INFRARED"], 50)

ValueSet(w) == { w[i].value : i \in 1..Len(w) }
Largest(S) == CHOOSE x \in S : \A y \in S : y <= x
PeakAt(w) == { i \in 1..Len(w) : w[i].value = Largest(ValueSet(w)) }

\* 50 samples: a flat baseline and exactly 3 single-sample peaks of one
\* amplitude, each 0.8 s after the one before
ThreePeaks(w) ==
    /\ Len(w) = 50
    /\ Cardinality(ValueSet(w)) = 2
    /\ Cardinality(PeakAt(w)) = 3
    /\ \A i \in PeakAt(w) : i + 1 \notin PeakAt(w)
    /\ \A i, j \in PeakAt(w) :
          (i < j /\ \A k \in PeakAt(w) : ~(i < k /\ k < j))
              => w[j].timestamp - w[i].timestamp = 8

\* no peak among the first two or the last two samples, and no two peaks
\* two samples apart
PeaksInside(w) ==
    \A i \in PeakAt(w) : 3 <= i /\ i <= Len(w) - 2 /\ i + 2 \notin PeakAt(w)

\* C8, as stated: when the most recent 50 PPG samples are a flat baseline
\* with exactly 3 equal single-sample peaks 0.8 s apart, a cycle sets
\* heart_rate to 75.
C8_Original ==
    [][(CycleStep /\ ThreePeaks(PpgWindow))
          => current_data'.heart_rate = Some(75)]_vars

\* C8, amended: the same, when no peak is among the first two or the last two
\* samples of the window and no two peaks are two samples apart.
C8_HeartRate75 ==
    [][(CycleStep /\ ThreePeaks(PpgWindow) /\ PeaksInside(PpgWindow))
          => current_data'.heart_rate = Some(75)]_vars

\* a cycle has read such a window and the heart rate is 75
C8_Witness ==
    /\ cycle_seen = packets_received
    /\ ThreePeaks(PpgWindow)
    /\ PeaksInside(PpgWindow)
    /\ current_data.heart_rate = Some(75)

Connected == current_data.connection_status = "connected"
Disconnected == current_data.connection_status = "disconnected"

\* the listener waits in recvfrom, connected, more than 10 s after the last
\* datagram, and the clock of the model can still reach the end of the wait
Silent ==
    /\ lpc = "recv"
    /\ Connected
    /\ now - last_packet_time > StaleAfter
    /\ recv_start + RecvTimeout <= MaxTimeConn

\* C9: connected and silent for more than 10 s leads to disconnected, set by
\* the first receive timeout after the 10 s, unless a datagram arrives first
\* (or the listener leaves its loop after Ctrl+C, or recvfrom fails and the
\* wait restarts past the end of the clock); the next datagram after that
\* sets connected again.
C9_ConnectionFlips ==
    /\ [][(Timeout /\ Connected /\ now - last_packet_time > StaleAfter)
             => Disconnected']_vars
    /\ [][(DatagramStep /\ Disconnected /\ packets_received > 0)
             => Connected']_vars
    /\ Silent ~> (\/ Disconnected
                  \/ now - last_packet_time <= StaleAfter
                  \/ lpc = "done"
                  \/ lpc = "recv" /\ recv_start + RecvTimeout > MaxTimeConn)

\* the loss was reported and a datagram that no strategy decoded has set
\* connected again
C9_Witness ==
    /\ Connected
    /\ current_data.last_update.kind = "Lost connection"
    /\ packets_received = 2

\* C10: every received datagram, decoded or rejected by every strategy, sets
\* connected and refreshes the last-receipt time; the status changes in no
\* other step than a receipt or a receive timeout after more than 10 s.
C10_ReceiptOnly ==
    [][/\ DatagramStep =>
            Connected' /\ last_packet_time' = now
       /\ (current_data'.connection_status # current_data.connection_status) =>
            \/ DatagramStep
            \/ Timeout /\ now - last_packet_time > StaleAfter]_vars

\* a datagram that every strategy rejected has been received, nothing was
\* ever decoded, and the status is connected
C10_Witness ==
    /\ Connected
    /\ packets_received > 0
    /\ successful_parses = 0
    /\ Len(ran) = 4 /\ ~SomeOk(ran)
    /\ last_packet_time = now

Metrics == {"heart_rate", "hrv_rmssd", "eda_tonic", "activity_level", "temperature"}

\* C11: while no datagram has been both received and parsed, all five
\* metrics are absent, and every engine cycle run in such a state replaces
\* last_update with the message giving the received and parsed counts.
C11_NoDataNoMetrics ==
    /\ [](packets_received = 0 \/ successful_parses = 0
             => \A m \in Metrics : current_data[m] = None)
    /\ [][(CycleStep /\ (packets_received = 0 \/ successful_parses = 0))
             => /\ current_data'.last_update =
                     LU("Received", "", packets_received, successful_parses)
                /\ \A m \in Metrics : current_data'[m] = None]_vars

\* a cycle ran after two datagrams that no strategy decoded: the message
\* reads 2 received, 0 parsed
C11_Witness ==
    /\ cycle_seen = 2
    /\ packets_received = 2
    /\ successful_parses = 0
    /\ current_data.last_update = LU("Received", "", 2, 0)

\* what each block of a cycle computes from its own buffer: None when the
\* block is skipped (too few samples, zero median interval, result out of
\* range)
Computed(m) ==
    CASE m = "heart_rate" -> HeartBlock(sensor_data["PPG_INFRARED"]).heart_rate
      [] m = "hrv_rmssd" -> HeartBlock(sensor_data["PPG_INFRARED"]).hrv_rmssd
      [] m = "eda_tonic" -> EdaBlock(sensor_data["EDA"])
      [] m = "activity_level" -> ActivityBlock(sensor_data["ACCELEROMETER_X"])
      [] m = "temperature" -> TemperatureBlock(sensor_data["TEMPERATURE_0"])

Rejected == DatagramStep /\ Len(ran') = Len(StrategyOrder) /\ ~SomeOk(ran')

\* C13: a datagram rejected by all four strategies leaves every channel
\* buffer and successful_parses unchanged, and the listener returns to
\* recvfrom (or leaves its loop when Ctrl+C has cleared running).
C13_RejectedLeavesNoTrace ==
    [][Rejected =>
         /\ sensor_data' = sensor_data
         /\ appended' = appended
         /\ successful_parses' = successful_parses
         /\ lpc' = (IF running THEN "recv" ELSE "done")]_vars

\* a rejected datagram has followed a decoded one: the samples and the count
\* of the first are still there and the listener is back in recvfrom
C13_Witness ==
    /\ packets_received = 2
    /\ successful_parses = 1
    /\ Len(ran) = Len(StrategyOrder) /\ ~SomeOk(ran)
    /\ \E c \in Channels : sensor_data[c] # << >>
    /\ lpc = "recv"

\* a step of the HTTP handler
QueryStep == handler' # handler

\* C14: the channel buffers, packets_received and successful_parses change
\* only in a step in which the listener receives a datagram; the steps of the
\* metric engine and of the HTTP handler leave them as they are.
C14_ListenerWritesBuffers ==
    [][/\ (\/ sensor_data' # sensor_data
           \/ packets_received' # packets_received
           \/ successful_parses' # successful_parses)
          => (lpc = "recv" /\ \E p \in AllPayloads : Receive(p))
       /\ (CycleStep \/ QueryStep)
          => /\ sensor_data' = sensor_data
             /\ packets_received' = packets_received
             /\ successful_parses' = successful_parses]_vars

\* the listener has decoded a datagram, the engine has run a cycle over it
\* and the handler has answered a request after it
C14_Witness ==
    /\ sensor_data["EDA"] # << >>
    /\ successful_parses = 1
    /\ cycle_seen = packets_received
    /\ response # None
    /\ response[1].parse_rate = parse_rate(1, packets_received)

\* C15, as stated: every field of current_data changes only in a step of the
\* metric engine.
C15_Original ==
    [][current_data' # current_data => CycleStep]_vars

\* C16: the parse rate of a response is successful_parses divided by
\* max(packets_received, 1), times 100: it is 0 when no packet was received
\* and 40 for 50 received and 20 parsed.
C16_ParseRate ==
    response # None =>
        LET r == response[1].parse_rate IN
        /\ r.d > 0
        /\ r.n * Max(packets_received, 1) = 100 * successful_parses * r.d
        /\ packets_received = 0 => r.n = 0
        /\ (packets_received = 50 /\ successful_parses = 20)
               => (r.n = 40 /\ r.d = 1)

\* a request was answered with 50 packets received and 20 parsed
C16_Witness ==
    /\ packets_received = 50
    /\ successful_parses = 20
    /\ response # None
    /\ response[1].parse_rate = [n |-> 40, d |-> 1]

\* C17, as stated: once the listener has failed to bind its port, the metric
\* engine runs no cycle and the HTTP handler serves no request.
C17_Original ==
    [][lpc = "failed" => ~CycleStep /\ ~QueryStep]_vars

\* C18: each metric that is present lies in its range: heart_rate in
\* [30,200], hrv_rmssd in [5,300], eda_tonic in [0,100], temperature in
\* [15,60].
C18_MetricsInRange ==
    /\ current_data.heart_rate # None =>
          (30 <= current_data.heart_rate[1] /\ current_data.heart_rate[1] <= 200)
    /\ current_data.hrv_rmssd # None =>
          (5 <= current_data.hrv_rmssd[1] /\ current_data.hrv_rmssd[1] <= 300)
    /\ current_data.eda_tonic # None =>
          LET r == current_data.eda_tonic[1] IN 0 <= r.n /\ r.n <= 100 * r.d
    /\ current_data.temperature # None =>
          LET r == current_data.temperature[1] IN
          15 * r.d <= r.n /\ r.n <= 60 * r.d

\* a cycle has written all four, three of them at a limit of their range
C18_Witness ==
    /\ cycle_seen = packets_received
    /\ current_data.heart_rate = Some(200)
    /\ current_data.hrv_rmssd # None
    /\ current_data.eda_tonic = Some(Rat(100, 1))
    /\ current_data.temperature = Some(Rat(15, 1))

\* C19: the channels are the eleven names created at construction, in every
\* state; and at every datagram each sample a strategy appended went into one
\* of those eleven buffers (the samples the buffers gained are as many as the
\* strategies appended), whatever channel the payload names.
C19_ChannelsFixed ==
    /\ [](/\ DOMAIN sensor_data = Channels
          /\ Cardinality(Channels) = 11
          /\ \A c \in Channels : Len(sensor_data[c]) <= Len(appended[c]))
    /\ [][DatagramStep =>
            SumSeq([i \in 1..Len(ChannelOrder) |-> Len(NewSamples(ChannelOrder[i]))])
              = SumSeq([i \in 1..Len(ran') |-> ran'[i].n])]_vars

\* both payloads that name the unknown channel HEART have been received: the
\* tagged one left 12 and 13 in accelerometer buffers and the delimited one
\* left 21 and 22 in the temperature buffer
C19_Witness ==
    /\ packets_received = 2
    /\ DOMAIN sensor_data = Channels
    /\ \E i \in 1..Len(sensor_data["ACCELEROMETER_X"]) :
          sensor_data["ACCELEROMETER_X"][i].value = 12
    /\ \E i \in 1..Len(sensor_data["TEMPERATURE_0"]) :
          sensor_data["TEMPERATURE_0"][i].value = 21

\* C20: the status starts as disconnected; a receive timeout before the
\* first datagram changes neither the status nor last_update; once a datagram
\* has been received the status goes to disconnected only in a receive
\* timeout taken more than 10 s after the last datagram, and a receive
\* timeout taken 10 s or less after it leaves the snapshot as it is.
C20_DisconnectedOnlyWhenStale ==
    /\ (Disconnected /\ packets_received = 0)
    /\ [][(Timeout /\ packets_received = 0) =>
            /\ current_data'.connection_status = current_data.connection_status
            /\ current_data'.last_update = current_data.last_update]_vars
    /\ [][(packets_received > 0 /\ Connected /\ Disconnected') =>
            (Timeout /\ now - last_packet_time > StaleAfter)]_vars
    /\ [][(Timeout /\ packets_received > 0 /\ now - last_packet_time <= StaleAfter) =>
            current_data' = current_data]_vars

\* the first datagram came 2 s after the start, when a receive wait had had
\* time to run out, and a receive timeout 12 s after it has reported the loss
C20_Witness ==
    /\ packets_received = 1
    /\ last_packet_time = 1 + RecvTimeout
    /\ Disconnected
    /\ current_data.last_update.kind = "Lost connection"
    /\ current_data.last_update.v = 12

\* C21: once running is False, the first return of the receive call (a
\* datagram, a timeout or an error) ends the listener loop, no engine cycle
\* starts any more, and both loops are left: the listener by that return, the
\* engine when its sleep is over.
C21_LoopsStop ==
    /\ [][~running =>
            /\ (lpc = "recv" /\ (DatagramStep \/ recv_start' # recv_start \/ lpc' # lpc))
                  => lpc' = "done"
            /\ lpc = "done" => (lpc' = "done" /\ ~DatagramStep /\ recv_start' = recv_start)
            /\ ~CycleStep
            /\ epc = "done" => epc' = "done"]_vars
    /\ ~running ~> (lpc \in {"done", "failed"} /\ epc = "done")

\* both loops have ended after a shutdown requested while the listener was
\* waiting and a datagram was its last return
C21_Witness ==
    /\ ~running
    /\ lpc = "done"
    /\ epc = "done"
    /\ packets_received = 1
    /\ last_packet_time > 1

\* C22: a return of the receive call that is neither a datagram nor a timeout
\* (it comes before the 2 s of the wait are over) changes no counter, no
\* buffer, nothing in the snapshot and not the last-receipt time, and the
\* listener goes back to the loop test: to the next receive while running.
C22_ErrorChangesNothing ==
    [][((lpc = "recv" /\ ~DatagramStep /\ now - recv_start < RecvTimeout
           /\ (lpc' # lpc \/ recv_start' # recv_start)) \/ RecvError) =>
          /\ packets_received' = packets_received
          /\ successful_parses' = successful_parses
          /\ sensor_data' = sensor_data
          /\ current_data' = current_data
          /\ last_packet_time' = last_packet_time
          /\ lpc' = (IF running THEN "recv" ELSE "done")]_vars

\* one second after a datagram the receive call failed: the listener waits
\* again, connected, with the counters of the datagram
C22_Witness ==
    /\ running
    /\ lpc = "recv"
    /\ packets_received = 1
    /\ successful_parses = 1
    /\ recv_start = last_packet_time + RecvTimeout \div 2
    /\ Connected
    /\ sensor_data["EDA"] # << >>

\* C23: when the tagged-type strategy succeeds on a datagram, the channel
\* between the tags gains exactly the first min(5, k) of the k >= 1 numerals
\* of the payload that have magnitude < 100000 and are not 3000, in payload
\* order, and no other channel gains a sample; when no numeral survives the
\* strategy fails.
C23_TaggedAppends ==
    [][(DatagramStep /\ ran'[1].name = "xml") =>
          \A kept \in { SelectSeq(FindNumbersA(datagram'[1]),
                                  LAMBDA v : Abs(v) < 100000 /\ v # 3000) } :
             IF ran'[1].ok
             THEN \A ch \in { Strip(TypeMatch(datagram'[1])[1])[1].s } :
                     /\ Len(kept) >= 1
                     /\ ch \in Channels
                     /\ \A new \in { ValuesIn(NewSamples(ch)) } :
                           /\ new = SubSeq(kept, 1, IF Len(kept) < 5 THEN Len(kept) ELSE 5)
                           /\ \A i \in 1..Len(new) :
                                 new[i] # 3000 /\ Abs(new[i]) < 100000
                     /\ \A c \in Channels \ {ch} : NewSamples(c) = << >>
             ELSE kept = << >> /\ ran'[1].n = 0]_vars

\* "<type>EDA</type> 5 -99999 5 5 5 -99999" was decoded: all six values are
\* kept and the first five were appended, in order
C23_Witness ==
    /\ datagram = Some(XmlText(TName("EDA"), << 5, -99999, 5, 5, 5, -99999 >>))
    /\ ran[1].name = "xml" /\ ran[1].ok
    /\ ValuesIn(sensor_data["EDA"]) = << 5, -99999, 5, 5, 5 >>

\* C24: when the delimited-fields strategy runs on a one-line payload
\* "1,NAME,f3,...", it succeeds exactly when NAME, trimmed, is a channel name
\* in its own spelling and some later field is a numeral of magnitude
\* < 100000; the channel then gains every such field, 3000 included, in field
\* order and however many they are, the other fields are skipped, and no other
\* channel gains a sample.
C24_DelimitedAppends ==
    [][(DatagramStep /\ Len(ran') >= 2 /\ ran'[2].name = "csv") =>
          \A payload \in { datagram'[1] } :
          \A at \in { Min({ i \in 1..Len(payload) : payload[i].k = "name" }) } :
          \A nums \in { SelectSeq(SubSeq(payload, at + 1, Len(payload)),
                                  LAMBDA t : t.k = "num" /\ Abs(t.v) < 100000) } :
             IF ran'[2].ok
             THEN /\ ~payload[at].f
                  /\ payload[at].s \in Channels
                  /\ Len(nums) >= 1
                  /\ ValuesIn(NewSamples(payload[at].s)) = [i \in 1..Len(nums) |-> nums[i].v]
                  /\ \A c \in Channels \ {payload[at].s} : NewSamples(c) = << >>
             ELSE (payload[at].f \/ nums = << >>) /\ ran'[2].n = 0]_vars

\* "1, EDA ,5,3000,5,abc,3000,5" was decoded: five of its six fields are
\* numerals and all five were appended, 3000 twice among them
C24_Witness ==
    /\ datagram = Some(CsvText(<< TSep(" "), TName("EDA"), TSep(" ") >>,
                               << TNum(5), TNum(3000), TNum(5), TWord("abc"),
                                  TNum(3000), TNum(5) >>))
    /\ Len(ran) = 2 /\ ran[2].name = "csv" /\ ran[2].ok
    /\ ValuesIn(sensor_data["EDA"]) = << 5, 3000, 5, 3000, 5 >>

\* the band of the value v at position i (from 0), "" for no band
Band(i, v) ==
    CASE 500 <= v /\ v <= 5000 -> "PPG_INFRARED"
      [] ~(500 <= v /\ v <= 5000) /\ 0 <= v /\ v <= 10 -> "EDA"
      [] ~(500 <= v /\ v <= 5000) /\ ~(0 <= v /\ v <= 10) /\ 20 <= v /\ v <= 50 ->
           "TEMPERATURE_0"
      [] ~(0 <= v /\ v <= 10) /\ ~(20 <= v /\ v <= 50) /\ -50 <= v /\ v <= 50 ->
           << "ACCELEROMETER_X", "ACCELEROMETER_Y", "ACCELEROMETER_Z" >>[(i % 3) + 1]
      [] OTHER -> ""

\* the values of s whose band is the channel c, in order
Routed(s, c) ==
    LET at == SelectSeq([i \in 1..Len(s) |-> i], LAMBDA i : Band(i - 1, s[i]) = c)
    IN [j \in 1..Len(at) |-> s[at[j]]]

\* C25: when the heuristic-numeric strategy succeeds, each channel gains
\* exactly the values, among the first 6 that are in [-1000, 10000] and not
\* 3000, whose band it is, in order: PPG-infrared for [500, 5000], else EDA
\* for [0, 10], else temperature for [20, 50], else for [-50, 50] the
\* accelerometer axis X, Y, Z at the value's position among those first 6
\* mod 3; a value of no band, and every value after the sixth, is written
\* nowhere.
C25_NumericRouting ==
    [][(DatagramStep /\ Len(ran') >= 3 /\ ran'[3].name = "numeric") =>
          \A payload \in { datagram'[1] } :
          \A survive \in { SelectSeq(
                               [i \in 1..((Len(payload) + 1) \div 2) |-> payload[2 * i - 1].v],
                               LAMBDA v : -1000 <= v /\ v <= 10000 /\ v # 3000) } :
          \A first \in { SubSeq(survive, 1, IF Len(survive) < 6 THEN Len(survive) ELSE 6) } :
             IF ran'[3].ok
             THEN \A c \in Channels : ValuesIn(NewSamples(c)) = Routed(first, c)
             ELSE Len(survive) < 2 /\ ran'[3].n = 0]_vars

\* "15.0 15.0 100.0 15.0 15.0 15.0 15.0" was decoded: 100 counts and is
\* written nowhere, the accelerometer values at positions 0, 1, 3, 4, 5 went
\* to X, Y, X, Y, Z, and the seventh value was not considered
C25_Witness ==
    /\ datagram = Some(NumericText(<< 15, 15, 100, 15, 15, 15, 15 >>))
    /\ Len(ran) = 3 /\ ran[3].name = "numeric" /\ ran[3].ok /\ ran[3].n = 5
    /\ Len(sensor_data["ACCELEROMETER_X"]) = 2
    /\ Len(sensor_data["ACCELEROMETER_Y"]) = 2
    /\ Len(sensor_data["ACCELEROMETER_Z"]) = 1

\* the tokens of a payload that are channel names in their own spelling
NamesIn(payload) == SelectSeq(payload, LAMBDA t : t.k = "name" /\ ~t.f)

\* the last strategy run on the datagram just received
LastRun == ran'[Len(ran')]

\* C26, as stated: a payload that contains a known channel name is never
\* decoded by the heuristic-numeric strategy.
C26_Original ==
    [][(DatagramStep /\ NamesIn(datagram'[1]) # << >>) =>
          ~(LastRun.name = "numeric" /\ LastRun.ok)]_vars

\* the position in the construction order of the channel c
OrderOf(c) == CHOOSE n \in 1..Len(ChannelOrder) : ChannelOrder[n] = c

\* C27: when the key-value strategy succeeds on a payload of pairs
\* "NAME<sep>value", exactly one sample is appended: to the channel that comes
\* first in the construction order among those named in the payload (in
\* either case of letters), and with the value of the leftmost pair naming it;
\* no other channel gains a sample.
C27_KeyValueOneSample ==
    [][(DatagramStep /\ LastRun.name = "structured") =>
          \A payload \in { datagram'[1] } :
          \A named \in { { i \in 1..Len(payload) : payload[i].k = "name" } } :
             IF LastRun.ok
             THEN /\ named # {}
                  /\ \A first \in { CHOOSE i \in named :
                                       \A j \in named :
                                          \/ OrderOf(payload[i].s) < OrderOf(payload[j].s)
                                          \/ payload[i].s = payload[j].s /\ i <= j } :
                     \A value \in { SelectSeq(SubSeq(payload, first, Len(payload)),
                                              LAMBDA t : t.k = "num")[1].v } :
                        /\ ValuesIn(NewSamples(payload[first].s)) = << value >>
                        /\ \A c \in Channels \ {payload[first].s} : NewSamples(c) = << >>
                  /\ LastRun.n = 1
             ELSE named = {} /\ LastRun.n = 0]_vars

\* "EDA: 7 PPG_RED 12.0 eda=5" was decoded by the key-value strategy: PPG_RED,
\* named second, comes first in the construction order and gained 12, and
\* EDA gained nothing
C27_Witness ==
    /\ datagram = Some(JoinPairs(<< << TName("EDA"), TSep(":"), TSep(" "), TNum(7) >>,
                                     << TName("PPG_RED"), TSep(" "), TDec(12) >>,
                                     << TLower("EDA"), TSep("="), TNum(5) >> >>))
    /\ ran[Len(ran)].name = "structured" /\ ran[Len(ran)].ok
    /\ ValuesIn(sensor_data["PPG_RED"]) = << 12 >>
    /\ sensor_data["EDA"] = << >>

\* the window w gives at least 3 inter-beat intervals (4 peaks) and the root
\* mean square of their successive differences is between 5 ms and 300 ms
\* (timestamps are in tenths of a second)
HrvConditions(w) ==
    LET peaks == Peaks(Detrended(ValuesOf(w)))
        intervals == Diff([i \in 1..Len(peaks) |-> w[peaks[i]].timestamp])
        dd == Diff(intervals)
        ss == SumSeq([j \in 1..Len(dd) |-> dd[j] * dd[j]])
    IN /\ Len(w) >= 5
       /\ Len(peaks) >= 4
       /\ 25 * Len(dd) <= 10000 * ss
       /\ 10000 * ss <= 90000 * Len(dd)

\* C28, as stated: hrv_rmssd is present after a cycle only if that cycle
\* obtained at least 3 intervals whose RMSSD lies in [5, 300].
C28_Original ==
    [][(CycleStep /\ current_data'.hrv_rmssd # None) => HrvConditions(PpgWindow)]_vars

\* the peaks of a detrended window d, with indices from 1: index i stands
\* for the i-1 of the code, so 2 <= i-1 <= n-3 is 3 <= i <= n-2
ClaimedPeaks(d) ==
    { i \in 1..Len(d) :
        /\ 3 <= i /\ i <= Len(d) - 2
        /\ d[i] > d[i - 1] /\ d[i] > d[i + 1]
        /\ d[i] > d[i - 2] /\ d[i] > d[i + 2]
        /\ AboveThreshold(d, i) }

\* C29: in the window of the most recent 50 PPG-infrared samples that a
\* cycle reads, the peaks found are exactly the indices 2..n-3 whose
\* detrended value is strictly above its two neighbours on each side and
\* above mean + 0.7 stdev, so the
\* first two and the last two samples are never peaks; and a cycle writes
\* heart_rate only if the window has at least 3 such peaks and the median of
\* the differences of consecutive peak timestamps is positive.
C29_PeaksAndHeartRate ==
    /\ [][(CycleStep /\ Len(PpgWindow) >= 5) =>
            \A d \in { Detrended(ValuesOf(PpgWindow)) } :
            \A peaks \in { Peaks(d) } :
               /\ { peaks[k] : k \in 1..Len(peaks) } = ClaimedPeaks(d)
               /\ \A k \in 1..Len(peaks) : 3 <= peaks[k] /\ peaks[k] <= Len(d) - 2
               /\ \A k \in 1..(Len(peaks) - 1) : peaks[k] < peaks[k + 1]]_vars
    /\ [][(CycleStep /\ current_data'.heart_rate # current_data.heart_rate) =>
            \A at \in { ClaimedPeaks(Detrended(ValuesOf(PpgWindow))) } :
               /\ Cardinality(at) >= 3
               /\ Median2(Diff(TimesOf(SelectSeq(
                      [i \in 1..Len(PpgWindow) |->
                          [PpgWindow[i] EXCEPT !.value = IF i \in at THEN 1 ELSE 0]],
                      LAMBDA x : x.value = 1)))) > 0]_vars

\* a cycle wrote 75 from a window whose second sample stands out like a peak
\* and is not counted, the three peaks counted lying further in
C29_Witness ==
    /\ cycle_seen = packets_received
    /\ current_data.heart_rate = Some(75)
    /\ PpgWindow[2].value > PpgWindow[1].value
    /\ PpgWindow[2].value > PpgWindow[3].value
    /\ Len(Peaks(Detrended(ValuesOf(PpgWindow)))) = 3
    /\ Peaks(Detrended(ValuesOf(PpgWindow)))[1] > 2

\* the k-th smallest of the values of v, by counting: fewer than k values
\* are below it and at least k are not above it
Smallest(v, k) ==
    CHOOSE x \in { v[i] : i \in 1..Len(v) } :
        /\ Cardinality({ i \in 1..Len(v) : v[i] < x }) < k
        /\ Cardinality({ i \in 1..Len(v) : v[i] <= x }) >= k

\* twice the median of the last min(20, Len(buf)) values of a buffer: the
\* middle value, or the sum of the two middle values
TonicOfLast20(buf) ==
    LET n == IF Len(buf) < 20 THEN Len(buf) ELSE 20
        v == [i \in 1..n |-> buf[Len(buf) - n + i].value]
    IN IF n % 2 = 1 THEN 2 * Smallest(v, (n + 1) \div 2)
       ELSE Smallest(v, n \div 2) + Smallest(v, n \div 2 + 1)

\* C30: after a cycle that ran with more than 10 EDA samples buffered and at
\* least one datagram decoded, if the median of the most recent min(20, len)
\* EDA samples lies in [0, 100] then eda_tonic equals that median, whatever
\* the older samples of the buffer are.
C30_EdaTonicLast20 ==
    [][(/\ CycleStep
        /\ HasData(packets_received, successful_parses)
        /\ Len(sensor_data["EDA"]) > 10) =>
          \A m2 \in { TonicOfLast20(sensor_data["EDA"]) } :
             (0 <= m2 /\ m2 <= 2 * 100) =>
                 current_data'.eda_tonic = Some(Rat(m2, 2))]_vars

\* a cycle wrote 6.5, the median of the last 20 of 31 samples, while the
\* median of the last 30 samples is 5 because of the 11 oldest samples
C30_Witness ==
    /\ cycle_seen = packets_received
    /\ Len(sensor_data["EDA"]) = 31
    /\ sensor_data["EDA"][1].value = 5
    /\ TonicOfLast20(sensor_data["EDA"]) = 13
    /\ Median2(ValuesOf(Recent(sensor_data["EDA"], 30))) = 2 * 5
    /\ current_data.eda_tonic = Some(Rat(13, 2))

\* C31: successful_parses never exceeds packets_received, between the
\* statements of the listener too, and every parse rate that the handler
\* reports lies in [0, 100], wherever the listener stands between the
\* handler's read of successful_parses and its later read of packets_received.
C31_RateWithinBounds ==
    /\ successful_parses <= packets_received
    /\ response # None =>
          LET r == response[1].parse_rate IN
          r.d > 0 /\ 0 <= r.n /\ r.n <= 100 * r.d

\* three datagrams were decoded and a request was answered with 1/3: a pair
\* of counters that the listener never held, read on either side of two
\* datagrams
C31_Witness ==
    /\ packets_received = 3
    /\ successful_parses = 3
    /\ response # None
    /\ response[1].parse_rate = Rat(100, 3)

\* C32, as stated: a datagram that increments successful_parses appends at
\* least one sample to some channel buffer.
C32_Original ==
    [][(DatagramStep /\ successful_parses' > successful_parses) =>
          \E c \in Channels : Len(appended'[c]) > Len(appended[c])]_vars

\* the datagram that brought the i-th sample of the PPG window
OriginInWindow(i) ==
    origin["PPG_INFRARED"][Len(origin["PPG_INFRARED"]) - Len(PpgWindow) + i]

\* C33: all samples appended while one datagram is decoded carry the same
\* timestamp, the time of its decoding; the timestamps of every buffer are
\* non-decreasing from oldest to newest; and of the intervals between
\* consecutive peaks that a cycle computes, each is >= 0 and each between two
\* peaks brought by the same datagram is 0.
C33_TimestampsOrdered ==
    /\ [][DatagramStep =>
            \A c \in Channels : \A i \in 1..Len(NewSamples(c)) :
                NewSamples(c)[i].timestamp = now]_vars
    /\ [][\A c \in Channels : \A i \in 1..(Len(sensor_data'[c]) - 1) :
            sensor_data'[c][i].timestamp <= sensor_data'[c][i + 1].timestamp]_vars
    /\ [][(CycleStep /\ Len(PpgWindow) >= 5) =>
            \A peaks \in { Peaks(Detrended(ValuesOf(PpgWindow))) } :
            \A intervals \in { Diff([k \in 1..Len(peaks) |->
                                       PpgWindow[peaks[k]].timestamp]) } :
            \A k \in 1..Len(intervals) :
               /\ intervals[k] >= 0
               /\ OriginInWindow(peaks[k]) = OriginInWindow(peaks[k + 1])
                     => intervals[k] = 0]_vars

\* a cycle wrote a heart rate of 150 from three peaks, the first two brought
\* by one datagram and 0 s apart, the third by a later datagram, 0.8 s later
C33_Witness ==
    /\ cycle_seen = packets_received
    /\ current_data.heart_rate = Some(150)
    /\ \E peaks \in { Peaks(Detrended(ValuesOf(PpgWindow))) } :
          /\ Len(peaks) = 3
          /\ OriginInWindow(peaks[1]) = OriginInWindow(peaks[2])
          /\ PpgWindow[peaks[2]].timestamp = PpgWindow[peaks[1]].timestamp
          /\ OriginInWindow(peaks[3]) # OriginInWindow(peaks[2])
          /\ PpgWindow[peaks[3]].timestamp = PpgWindow[peaks[2]].timestamp + 8

\* C34: in every state eda_tonic is absent while the EDA buffer holds 10 or
\* fewer samples, activity_level is absent while the accelerometer-X buffer
\* holds 15 or fewer, and temperature is absent while the temperature buffer
\* holds 5 or fewer; and no buffer ever gets shorter.
C34_AbsentBelowMinimum ==
    /\ [](/\ Len(sensor_data["EDA"]) <= 10 => current_data.eda_tonic = None
          /\ Len(sensor_data["ACCELEROMETER_X"]) <= 15 =>
                current_data.activity_level = None
          /\ Len(sensor_data["TEMPERATURE_0"]) <= 5 =>
                current_data.temperature = None)
    /\ [][\A c \in Channels : Len(sensor_data'[c]) >= Len(sensor_data[c])]_vars

\* a cycle ran over 10 EDA samples and 6 temperature samples: it wrote the
\* temperature and left eda_tonic absent
C34_Witness ==
    /\ cycle_seen = packets_received
    /\ successful_parses = 2
    /\ Len(sensor_data["EDA"]) = 10
    /\ Len(sensor_data["TEMPERATURE_0"]) = 6
    /\ current_data.eda_tonic = None
    /\ current_data.temperature = Some(Rat(36, 1))

\* C35: in every state hrv_rmssd is present only if heart_rate is; a cycle
\* changes hrv_rmssd only if its window gave a heart rate in [30, 200], which
\* the same cycle wrote; and once a datagram has been parsed no step makes a
\* present heart_rate or hrv_rmssd absent.
C35_HrvImpliesHeartRate ==
    /\ [](current_data.hrv_rmssd # None => current_data.heart_rate # None)
    /\ [][(CycleStep /\ current_data'.hrv_rmssd # current_data.hrv_rmssd) =>
            \A hb \in { HeartBlock(sensor_data["PPG_INFRARED"]) } :
               /\ hb.heart_rate # None
               /\ 30 <= hb.heart_rate[1] /\ hb.heart_rate[1] <= 200
               /\ current_data'.heart_rate = hb.heart_rate
               /\ current_data'.hrv_rmssd = hb.hrv_rmssd]_vars
    /\ [][successful_parses > 0 =>
            /\ current_data.heart_rate # None => current_data'.heart_rate # None
            /\ current_data.hrv_rmssd # None => current_data'.hrv_rmssd # None]_vars

\* a first cycle wrote both values and a later cycle, over a window that
\* gives no heart rate any more, left both in place
C35_Witness ==
    /\ cycle_seen = packets_received
    /\ Len(sensor_data["PPG_INFRARED"]) > 35
    /\ HeartBlock(sensor_data["PPG_INFRARED"]).heart_rate = None
    /\ current_data.heart_rate # None
    /\ current_data.hrv_rmssd # None

\* the lines of a payload, cut at its newlines, each as its row of CsvLineTable
RECURSIVE CutLines(_)
CutLines(p) ==
    IF \A i \in 1..Len(p) : p[i].k # "nl"
    THEN << CHOOSE r \in CsvLineTable : r.text = p >>
    ELSE LET i == Min({ j \in 1..Len(p) : p[j].k = "nl" })
         IN << CHOOSE r \in CsvLineTable : r.text = SubSeq(p, 1, i - 1) >>
            \o CutLines(SubSeq(p, i + 1, Len(p)))

\* C36: on a payload of several lines the delimited-fields strategy succeeds
\* exactly when some line qualifies and yields a surviving value, and it then
\* appends the values of the first such line, to that line's channel, and
\* nothing else: qualifying lines without a surviving value before it are
\* passed over, and the lines after it give no sample even if they qualify.
C36_FirstYieldingLine ==
    [][(DatagramStep /\ Len(ran') >= 2 /\ ran'[2].name = "csv") =>
          \A lines \in { CutLines(datagram'[1]) } :
          \A yielding \in { { j \in 1..Len(lines) :
                                lines[j].qualifies /\ lines[j].values # << >> } } :
             IF yielding = {}
             THEN ~ran'[2].ok /\ ran'[2].n = 0
             ELSE \A first \in { Min(yielding) } :
                     /\ ran'[2].ok
                     /\ ValuesIn(NewSamples(lines[first].ch)) = lines[first].values
                     /\ \A c \in Channels \ { lines[first].ch } :
                           NewSamples(c) = << >>]_vars

\* "1,EDA,abc" / "1,PPG_RED,7,8" / "1,EDA,5" was decoded: the first line
\* qualifies and gives no value, the second gave 7 and 8 to PPG_RED, and the
\* third, which qualifies too, gave nothing to EDA
C36_Witness ==
    /\ datagram = Some(JoinLines(<< CsvText(<< TName("EDA") >>, << TWord("abc") >>),
                                   CsvRow("PPG_RED", << 7, 8 >>),
                                   CsvRow("EDA", << 5 >>) >>))
    /\ Len(ran) = 2 /\ ran[2].name = "csv" /\ ran[2].ok /\ ran[2].n = 2
    /\ ValuesIn(sensor_data["PPG_RED"]) = << 7, 8 >>
    /\ sensor_data["EDA"] = << >>

====
